---- MODULE Spec2Model ----
(***************************************************************************)
(* Model of the 3-engine sprint planning architecture of                   *)
(* src/ml-service/three_engine_architecture.py:                            *)
(*   1. BacklogEngine   (selection scores over a dependency graph)         *)
(*   2. PlanningEngine  (greedy knapsack over the ranked backlog)          *)
(*   3. RecommendationEngine (sprint interruption decision)                *)
(* of its endpoint in src/ml-service/main.py, of the caller that applies a *)
(* decision to a sprint, and of the backend handlers under src/backend/app *)
(* that write the spaces, the sprints and the work items of the database,  *)
(* one step for each database operation a handler awaits.                  *)
(*                                                                         *)
(* Numbers.  The source computes scores, values and hours in Python floats *)
(* (IEEE 754 doubles, round to nearest, ties to even) with weights such as *)
(* 0.3 and 0.2 that no double holds exactly.  The model keeps every double *)
(* bit for bit, see DOUBLES below.  Story points and capacities are whole  *)
(* points.                                                                 *)
(***************************************************************************)
EXTENDS Integers, Sequences, FiniteSets, TLC

VARIABLES
    tickets,        \* BacklogEngine.tickets: ticket id -> TicketNode
    order,          \* insertion order of the keys of BacklogEngine.tickets
    new_ticket,     \* the interruption request: the arriving requirement (a dict)
    active_sprint,  \* the interruption request: the running sprint (a dict)
    sprint_items,   \* the interruption request: the sprint's work items (dicts)
    ret,            \* the last call on the engines and what it returned
    board,          \* the surrounding system: the sprint's current items, the
                    \* per-sprint lock and the removals applied so far
    callers,        \* the surrounding system: each interruption request in flight
    db,             \* the backend's database: the spaces, sprints and work_items
                    \* collections
    calls           \* the backend's requests in flight, each at one of its awaits

backlogVars == <<tickets, order>>
requestVars == <<new_ticket, active_sprint, sprint_items>>
callerVars == <<board, callers>>
backendVars == <<db, calls>>
vars == <<tickets, order, new_ticket, active_sprint, sprint_items, ret, board, callers, db,
          calls>>

-----------------------------------------------------------------------------
(* Bounds of the model *)

MaxTickets == 2
MaxDeps == 1
MaxCapacity == 5

-----------------------------------------------------------------------------
(* DOUBLES                                                                 *)
(*                                                                         *)
(* A double x of the program is the record [t, n] with                     *)
(*     x = t / UNIT + n / (UNIT * 2^55)                                    *)
(* t counts units of 1/400, which every decimal constant of the source is  *)
(* a multiple of (0.3 is 120 units, 0.75 is 300); n is the distance of the *)
(* double from that decimal, in units of 1/(400 * 2^55).  Every double of  *)
(* magnitude below 2^9 that is 0 or at least 0.125 is a multiple of 2^-55, *)
(* so are the exact sums, differences and products the source forms of     *)
(* them, and the pair holds all of them without loss.  An arithmetic       *)
(* operation of the source is the exact operation on the pairs followed by *)
(* the rounding to 53 significant bits that the hardware does.             *)

UNIT == 4 * 100

\* float(i) of an int i
Float(i) == [t |-> i * UNIT, n |-> 0]

RECURSIVE Pow2(_)
Pow2(j) == IF j = 0 THEN 1 ELSE 2 * Pow2(j - 1)

RECURSIVE Pow2ModUnit(_)
Pow2ModUnit(j) == IF j = 0 THEN 1 ELSE (2 * Pow2ModUnit(j - 1)) % UNIT

Pow2Table == [j \in 0..20 |-> Pow2(j)]
Pow2ModUnitTable == [j \in 0..55 |-> Pow2ModUnit(j)]

\* the largest e, from e downwards, with 2^(e - 9) <= x, for x > 0
RECURSIVE binade_from(_, _)
binade_from(x, e) ==
    IF \/ UNIT * Pow2Table[e] < 512 * x.t
       \/ UNIT * Pow2Table[e] = 512 * x.t /\ x.n >= 0
    THEN e ELSE binade_from(x, e - 1)

\* the largest e with 2^(e - 9) <= i, for the whole numbers below 2^10
RECURSIVE binade_of_whole(_, _)
binade_of_whole(i, e) ==
    IF Pow2(e - 9) <= i THEN e ELSE binade_of_whole(i, e - 1)

WholeBinadeTable == [i \in 1..1023 |-> binade_of_whole(i, 18)]

\* the whole part of x > 0
whole_part(x) ==
    IF x.t % UNIT = 0 /\ x.n < 0 THEN x.t \div UNIT - 1 ELSE x.t \div UNIT

\* the e with 2^(e - 9) <= x < 2^(e - 8), for 0 < x < 2^10
binade(x) ==
    IF whole_part(x) >= 1 THEN WholeBinadeTable[whole_part(x)] ELSE binade_from(x, 8)

\* x to the nearest multiple of grid, a tie to the multiple that is even;
\* low is the numerator of x modulo 2 * grid, so that low % grid is what x has
\* above the multiple below it, and that multiple is odd when low >= grid
round_to_grid(x, grid, low) ==
    IF 2 * (low % grid) < grid \/ (2 * (low % grid) = grid /\ low < grid)
    THEN [t |-> x.t, n |-> x.n - (low % grid)]
    ELSE [t |-> x.t, n |-> x.n + (grid - (low % grid))]

\* x > 0 rounded to 53 significant bits.  In [2^k, 2^(k+1)) the doubles are
\* 2^(k-52) apart, that is 2^s units of 2^-55 with s = k + 3; the numerator
\* t * 2^55 + n is rounded to the nearest multiple of UNIT * 2^s.
round_in_binade(x, s) ==
    IF s < 0 THEN x
    ELSE round_to_grid(x, UNIT * Pow2Table[s],
                       (2 * Pow2Table[s] * (((x.t % UNIT) * Pow2ModUnitTable[54 - s]) % UNIT)
                          + x.n) % (2 * UNIT * Pow2Table[s]))

round_positive(x) == round_in_binade(x, binade(x) - 6)

float_neg(x) == [t |-> 0 - x.t, n |-> 0 - x.n]

\* round to nearest, ties to even; 0, the multiples of 2^-55 next to 0 and
\* the multiples of 1/8 are doubles as they are
float_round(x) ==
    IF x.t = 0 \/ (x.n = 0 /\ (8 * x.t) % UNIT = 0) THEN x
    ELSE IF x.t < 0 THEN float_neg(round_positive(float_neg(x)))
    ELSE round_positive(x)

\* a decimal literal of the source, units/400, as the double Python reads it as
Literal(units) == float_round([t |-> units, n |-> 0])

float_add(x, y) == float_round([t |-> x.t + y.t, n |-> x.n + y.n])
float_sub(x, y) == float_round([t |-> x.t - y.t, n |-> x.n - y.n])

\* x * y where x or y is a multiple of 1/UNIT held exactly: every product the
\* source forms has such a factor
float_mul(x, y) ==
    IF y.n = 0
    THEN float_round([t |-> (x.t * y.t) \div UNIT, n |-> (x.n * y.t) \div UNIT])
    ELSE float_round([t |-> (y.t * x.t) \div UNIT, n |-> (y.n * x.t) \div UNIT])

float_lt(x, y) == x.t < y.t \/ (x.t = y.t /\ x.n < y.n)
float_le(x, y) == x.t < y.t \/ (x.t = y.t /\ x.n <= y.n)

\* max(x, y) of Python: y only when it is greater
float_max(x, y) == IF float_lt(x, y) THEN y ELSE x

Zero == Float(0)

-----------------------------------------------------------------------------
(* Program constants *)

W1_BUSINESS_VALUE == Literal(UNIT \div 2)
W2_URGENCY == Literal((3 * UNIT) \div 10)
W3_RISK_PENALTY == Literal(UNIT \div 5)
UNMET_DEPENDENCY_PENALTY == Float(30)

-----------------------------------------------------------------------------
(* Input domains *)

IdName == <<"T1", "T2", "T3", "T4">>
TicketIds == {IdName[i] : i \in 1..MaxTickets}
UnknownId == "ZZ"

BusinessValues == {10, 80}
Urgencies == {58}
RiskPenalties == {46}
StoryPointValues == {2, 3}
TicketStatuses == {"backlog", "in_sprint", "done"}

RECURSIVE SeqsUpTo(_, _)
SeqsUpTo(S, n) ==
    IF n = 0 THEN {<< >>}
    ELSE LET shorter == SeqsUpTo(S, n - 1)
         IN  shorter \cup {Append(s, x) : s \in {t \in shorter : Len(t) = n - 1}, x \in S}

DependencyLists == SeqsUpTo(TicketIds \cup {UnknownId}, MaxDeps)

TicketNode ==
    [id : TicketIds,
     business_value : BusinessValues,
     urgency : Urgencies,
     risk_penalty : RiskPenalties,
     story_points : StoryPointValues,
     dependencies : DependencyLists,
     status : TicketStatuses]

Capacities == (0 - 1)..MaxCapacity
ExcludeLists == SUBSET TicketIds
NoFilter == "None"
StatusFilters == {NoFilter, "backlog", "done"}

NoReturn == [op |-> "none", args |-> << >>, value |-> << >>]

\* the parts of the state a specification leaves out
NoCallers == board = << >> /\ callers = << >>
NoBackend == db = << >> /\ calls = << >>

-----------------------------------------------------------------------------
(* 1. BACKLOG ENGINE *)

\* a slip of sign on the risk term
base_score_risk_added(t) ==
    float_add(float_add(float_mul(W1_BUSINESS_VALUE, Float(t.business_value)),
                        float_mul(W2_URGENCY, Float(t.urgency))),
              float_mul(W3_RISK_PENALTY, Float(t.risk_penalty)))

\* w1 * business_value + w2 * urgency - w3 * risk_penalty, left to right
base_score(t) ==
    float_sub(float_add(float_mul(W1_BUSINESS_VALUE, Float(t.business_value)),
                        float_mul(W2_URGENCY, Float(t.urgency))),
              float_mul(W3_RISK_PENALTY, Float(t.risk_penalty)))

\* `dep_ticket and dep_ticket.status != "done"`: a dependency that is not a key
\* of the graph gives None and is passed over.
dependency_unmet(dep_id, graph) ==
    dep_id \in DOMAIN graph /\ graph[dep_id].status # "done"

\* dependency_penalty = 0.0, then += 30.0 for every unmet entry of the list
RECURSIVE dependency_penalty_from(_, _, _)
dependency_penalty_from(penalty, deps, graph) ==
    IF deps = << >> THEN penalty
    ELSE dependency_penalty_from(
             IF dependency_unmet(Head(deps), graph)
             THEN float_add(penalty, UNMET_DEPENDENCY_PENALTY) ELSE penalty,
             Tail(deps), graph)

\* the penalty charged once, however many dependencies are unmet
dependency_penalty_once(deps, graph) ==
    IF \E i \in 1..Len(deps) : dependency_unmet(deps[i], graph)
    THEN UNMET_DEPENDENCY_PENALTY ELSE Zero

dependency_penalty(deps, graph) == dependency_penalty_from(Zero, deps, graph)

final_score(t, graph) ==
    float_sub(base_score(t), dependency_penalty(t.dependencies, graph))

\* the score returned as computed, the floor left out
calculate_selection_score_unfloored(t, graph) == final_score(t, graph)

calculate_selection_score(t, graph) == float_max(Zero, final_score(t, graph))

calculate_all_scores(graph) ==
    [tid \in DOMAIN graph |-> calculate_selection_score(graph[tid], graph)]

\* sorted(..., key=score, reverse=True): a stable sort, so that entries of equal
\* score keep the order they have in the dict.
RECURSIVE insert_desc(_, _)
insert_desc(x, sorted) ==
    IF sorted = << >> THEN <<x>>
    ELSE IF float_le(x[2], Head(sorted)[2])
         THEN <<Head(sorted)>> \o insert_desc(x, Tail(sorted))
    ELSE <<x>> \o sorted

RECURSIVE sorted_desc(_, _)
sorted_desc(items, acc) ==
    IF items = << >> THEN acc
    ELSE sorted_desc(Tail(items), insert_desc(Head(items), acc))

passes_filter(graph, tid, status_filter) ==
    status_filter = NoFilter \/ graph[tid].status = status_filter

get_sorted_backlog(graph, ord, status_filter) ==
    LET scores == calculate_all_scores(graph)
        keys == SelectSeq(ord, LAMBDA tid : passes_filter(graph, tid, status_filter))
        filtered == [i \in 1..Len(keys) |-> <<keys[i], scores[keys[i]]>>]
    IN  sorted_desc(filtered, << >>)

-----------------------------------------------------------------------------
(* 2. PLANNING ENGINE *)

\* the item's own points compared, the running total forgotten
exceeds_capacity_alone(total_points, story_points, capacity) ==
    story_points > capacity

exceeds_capacity(total_points, story_points, capacity) ==
    total_points + story_points > capacity

dependencies_met(t, graph) ==
    \A i \in 1..Len(t.dependencies) : ~dependency_unmet(t.dependencies[i], graph)

\* the exclusion list never consulted
is_excluded_never(ticket_id, exclude_tickets) == FALSE

\* `if ticket_id in exclude_tickets: continue`
is_excluded(ticket_id, exclude_tickets) == ticket_id \in exclude_tickets

\* the pass given up at the first ticket that does not fit (`break` for
\* `continue`)
RECURSIVE plan_loop_early_exit(_, _, _, _, _)
plan_loop_early_exit(graph, sorted_backlog, capacity, exclude_tickets, acc) ==
    IF sorted_backlog = << >> THEN acc
    ELSE LET ticket_id == Head(sorted_backlog)[1]
             ticket == graph[ticket_id]
             rest == Tail(sorted_backlog)
         IN  IF is_excluded(ticket_id, exclude_tickets)
               THEN plan_loop_early_exit(graph, rest, capacity, exclude_tickets, acc)
             ELSE IF exceeds_capacity(acc.total_points, ticket.story_points, capacity)
               THEN acc
             ELSE IF ~dependencies_met(ticket, graph)
               THEN plan_loop_early_exit(graph, rest, capacity, exclude_tickets,
                        [acc EXCEPT !.unmet_dependencies =
                            IF \E i \in 1..Len(@) : @[i] = ticket_id
                            THEN @ ELSE Append(@, ticket_id)])
             ELSE plan_loop_early_exit(graph, rest, capacity, exclude_tickets,
                        [acc EXCEPT !.selected_tickets = Append(@, ticket_id),
                                    !.total_points = @ + ticket.story_points])

RECURSIVE plan_loop(_, _, _, _, _)
plan_loop(graph, sorted_backlog, capacity, exclude_tickets, acc) ==
    IF sorted_backlog = << >> THEN acc
    ELSE LET ticket_id == Head(sorted_backlog)[1]
             ticket == graph[ticket_id]
             rest == Tail(sorted_backlog)
         IN  IF is_excluded(ticket_id, exclude_tickets)
               THEN plan_loop(graph, rest, capacity, exclude_tickets, acc)
             ELSE IF exceeds_capacity(acc.total_points, ticket.story_points, capacity)
               THEN plan_loop(graph, rest, capacity, exclude_tickets, acc)
             ELSE IF ~dependencies_met(ticket, graph)
               THEN plan_loop(graph, rest, capacity, exclude_tickets,
                        [acc EXCEPT !.unmet_dependencies =
                            IF \E i \in 1..Len(@) : @[i] = ticket_id
                            THEN @ ELSE Append(@, ticket_id)])
             ELSE plan_loop(graph, rest, capacity, exclude_tickets,
                        [acc EXCEPT !.selected_tickets = Append(@, ticket_id),
                                    !.total_points = @ + ticket.story_points])

\* plan_sprint from the ranking on: the loop over the ranked tickets and the
\* SprintPlan it returns
plan_sorted(graph, sorted_backlog, capacity, exclude_tickets) ==
    LET done == plan_loop(graph, sorted_backlog, capacity, exclude_tickets,
                    [selected_tickets |-> << >>, total_points |-> 0,
                     unmet_dependencies |-> << >>])
    IN  [selected_tickets |-> done.selected_tickets,
         total_points |-> done.total_points,
         remaining_capacity |-> capacity - done.total_points,
         unmet_dependencies |-> done.unmet_dependencies]

\* sorted_backlog = backlog_engine.get_sorted_backlog(status_filter="backlog"),
\* then the loop
plan_sprint(graph, ord, capacity, exclude_tickets) ==
    plan_sorted(graph, get_sorted_backlog(graph, ord, "backlog"), capacity, exclude_tickets)

-----------------------------------------------------------------------------
(* Operations on the backlog and planning engines *)

NoRequest == << >>

InitBacklog ==
    /\ tickets = << >>
    /\ order = << >>
    /\ new_ticket = NoRequest
    /\ active_sprint = NoRequest
    /\ sprint_items = << >>
    /\ ret = NoReturn
    /\ NoCallers
    /\ NoBackend

\* self.tickets[ticket.id] = ticket: a new key goes last, an existing key keeps
\* its place and gets the new node.
add_ticket(t) ==
    /\ t.id \in DOMAIN tickets \/ Len(order) < MaxTickets
    /\ tickets' = [tid \in DOMAIN tickets \cup {t.id} |->
                      IF tid = t.id THEN t ELSE tickets[tid]]
    /\ order' = IF t.id \in DOMAIN tickets THEN order ELSE Append(order, t.id)
    /\ ret' = NoReturn
    /\ UNCHANGED <<requestVars, callerVars, backendVars>>

CalculateAllScores ==
    /\ ret' = [op |-> "calculate_all_scores", args |-> << >>,
               value |-> calculate_all_scores(tickets)]
    /\ UNCHANGED <<backlogVars, requestVars, callerVars, backendVars>>

GetSortedBacklog(status_filter) ==
    /\ ret' = [op |-> "get_sorted_backlog", args |-> [status_filter |-> status_filter],
               value |-> get_sorted_backlog(tickets, order, status_filter)]
    /\ UNCHANGED <<backlogVars, requestVars, callerVars, backendVars>>

PlanSprint(sorted_backlog, capacity, exclude_tickets) ==
    /\ ret' = [op |-> "plan_sprint",
               args |-> [capacity |-> capacity, exclude_tickets |-> exclude_tickets],
               value |-> plan_sorted(tickets, sorted_backlog, capacity, exclude_tickets)]
    /\ UNCHANGED <<backlogVars, requestVars, callerVars, backendVars>>

AddTicket == \E t \in TicketNode : add_ticket(t)
SortBacklog == \E f \in StatusFilters : GetSortedBacklog(f)
\* the ranking plan_sprint starts from depends on the backlog alone: it is
\* taken once for all the capacities and exclusion lists
Plan ==
    LET sorted_backlog == get_sorted_backlog(tickets, order, "backlog")
    IN  \E c \in Capacities, x \in ExcludeLists : PlanSprint(sorted_backlog, c, x)

NextBacklog ==
    \/ AddTicket
    \/ CalculateAllScores
    \/ SortBacklog
    \/ Plan

Spec == InitBacklog /\ [][NextBacklog]_vars

-----------------------------------------------------------------------------
(* 3. RECOMMENDATION ENGINE                                                *)
(*                                                                         *)
(* Values and hours are doubles, as in the source.                         *)
(* A Python dict is a function from its keys; d.get(k, default) is Get.    *)
(* None for an Optional[float] is the empty tuple and a value v is <<v>>;  *)
(* None for target_to_remove is the string "None".  The free text of       *)
(* `reasoning` is left out, and an entry of constraints_checked is the     *)
(* rule's label without the number the source formats into it.             *)

Get(d, key, default) == IF key \in DOMAIN d THEN d[key] ELSE default

NoneId == "None"
NoneValue == << >>

UpperChars == <<"A","B","C","D","E","F","G","H","I","J","K","L","M",
                "N","O","P","Q","R","S","T","U","V","W","X","Y","Z">>
LowerChars == <<"a","b","c","d","e","f","g","h","i","j","k","l","m",
                "n","o","p","q","r","s","t","u","v","w","x","y","z">>

lower_char(c) ==
    IF \E i \in 1..Len(UpperChars) : UpperChars[i] = c
    THEN LowerChars[CHOOSE i \in 1..Len(UpperChars) : UpperChars[i] = c]
    ELSE c

lower(text) == [i \in 1..Len(text) |-> lower_char(text[i])]

\* keyword in text
contains(text, keyword) ==
    \E k \in 0..(Len(text) - Len(keyword)) :
        SubSeq(text, k + 1, k + Len(keyword)) = keyword

blocker_keywords ==
    << <<"b","l","o","c","k","e","r">>,
       <<"c","r","i","t","i","c","a","l">>,
       <<"u","r","g","e","n","t">>,
       <<"p","r","o","d","u","c","t","i","o","n">>,
       <<"d","o","w","n">>,
       <<"b","r","o","k","e","n">>,
       <<"p","0">> >>

\* the description left out of the text that is searched
is_blocker_title_only(ticket) ==
    LET title == lower(Get(ticket, "title", << >>))
    IN  \E i \in 1..Len(blocker_keywords) : contains(title, blocker_keywords[i])

is_blocker(ticket) ==
    LET description == lower(Get(ticket, "description", << >>))
        title == lower(Get(ticket, "title", << >>))
        text == title \o <<" ">> \o description
    IN  \E i \in 1..Len(blocker_keywords) : contains(text, blocker_keywords[i])

priority_map(priority) ==
    CASE priority = "Highest" -> 90
      [] priority = "High" -> 70
      [] priority = "Medium" -> 50
      [] priority = "Low" -> 30
      [] priority = "Lowest" -> 10
      [] OTHER -> 50

\* the priority's urgency taken in place of the ticket's, not blended with it
calculate_ticket_value_priority_only(ticket) ==
    LET business_value == Float(Get(ticket, "business_value", 50))
        risk_penalty == Float(Get(ticket, "risk_penalty", 0))
        w1 == Literal(UNIT \div 2)
        w2 == Literal((3 * UNIT) \div 10)
        w3 == Literal(UNIT \div 5)
        priority_urgency == priority_map(Get(ticket, "priority", "Medium"))
        effective_urgency ==
            float_mul(Float(priority_urgency), Literal((4 * UNIT) \div 5))
        value == float_sub(float_add(float_mul(w1, business_value),
                                     float_mul(w2, effective_urgency)),
                           float_mul(w3, risk_penalty))
    IN  float_max(Zero, value)

\* (w1 * business_value) + (w2 * effective_urgency) - (w3 * risk_penalty) with
\* w1, w2, w3 = 0.5, 0.3, 0.2 and effective_urgency the larger of the urgency
\* and priority_urgency * 0.8
calculate_ticket_value(ticket) ==
    LET business_value == Float(Get(ticket, "business_value", 50))
        urgency == Float(Get(ticket, "urgency", 50))
        risk_penalty == Float(Get(ticket, "risk_penalty", 0))
        w1 == Literal(UNIT \div 2)
        w2 == Literal((3 * UNIT) \div 10)
        w3 == Literal(UNIT \div 5)
        priority_urgency == priority_map(Get(ticket, "priority", "Medium"))
        effective_urgency ==
            float_max(urgency,
                      float_mul(Float(priority_urgency), Literal((4 * UNIT) \div 5)))
        value == float_sub(float_add(float_mul(w1, business_value),
                                     float_mul(w2, effective_urgency)),
                           float_mul(w3, risk_penalty))
    IN  float_max(Zero, value)

\* 0.0, 1.0, 3.0 and, for any other status, 1.5
status_cost(status) ==
    CASE status = "To Do" -> Float(0)
      [] status = "In Review" -> Float(1)
      [] status = "In Progress" -> Float(3)
      [] OTHER -> Literal((3 * UNIT) \div 2)

\* 1.5, 1.2 or 1.0
size_multiplier(item_points) ==
    IF item_points >= 13 THEN Literal((3 * UNIT) \div 2)
    ELSE IF item_points >= 8 THEN Literal((6 * UNIT) \div 5)
    ELSE Float(1)

\* (base_cost_hours + status_cost + wip_cost) * size_multiplier
\*     * active_multiplier + productivity_impact_days * 8.0
calculate_context_switching_cost(work_item, is_active_sprint, in_progress_count, productivity_impact_days) ==
    LET base_cost_hours == Literal(UNIT \div 2)
        wip_cost == float_mul(Float(in_progress_count), Literal((3 * UNIT) \div 4))
        active_multiplier ==
            IF is_active_sprint THEN Literal((3 * UNIT) \div 2) ELSE Float(1)
        hours == float_add(float_add(base_cost_hours,
                                     status_cost(Get(work_item, "status", "To Do"))),
                           wip_cost)
    IN  float_add(
            float_mul(float_mul(hours,
                                size_multiplier(Get(work_item, "story_points", 0))),
                      active_multiplier),
            float_mul(Float(productivity_impact_days), Float(8)))

\* the hours taken for value points, the factor 2 forgotten
convert_cost_unconverted(cost_hours) == cost_hours

convert_cost_to_value(cost_hours) == float_mul(cost_hours, Float(2))

\* by_status[status], in the order of sprint_items
items_with_status(items, status) ==
    SelectSeq(items, LAMBDA item : Get(item, "status", "To Do") = status)

\* list.sort / sorted by story points, ascending and stable
RECURSIVE insert_by_points(_, _)
insert_by_points(x, sorted) ==
    IF sorted = << >> THEN <<x>>
    ELSE IF Get(Head(sorted), "story_points", 0) <= Get(x, "story_points", 0)
         THEN <<Head(sorted)>> \o insert_by_points(x, Tail(sorted))
    ELSE <<x>> \o sorted

RECURSIVE sort_by_points(_, _)
sort_by_points(items, acc) ==
    IF items = << >> THEN acc
    ELSE sort_by_points(Tail(items), insert_by_points(Head(items), acc))

NoCandidate == [found |-> FALSE]

candidate_of(item, reason) ==
    [found |-> TRUE, item |-> item, reason |-> reason,
     total_removed_points |-> Get(item, "story_points", 0)]

\* the critical-blocker condition dropped from the last tier
in_progress_always_allowed(is_critical) == TRUE

in_progress_allowed(is_critical) == is_critical

\* the first two tiers looked at in the wrong order
find_optimal_swap_candidate_review_first(items, is_critical, points_needed) ==
    LET to_do == sort_by_points(items_with_status(items, "To Do"), << >>)
        in_review == sort_by_points(items_with_status(items, "In Review"), << >>)
        in_progress == sort_by_points(items_with_status(items, "In Progress"), << >>)
    IN  IF in_review # << >>
          THEN candidate_of(in_review[1],
                   "In Review items are easier to defer than In Progress")
        ELSE IF to_do # << >>
          THEN candidate_of(to_do[1], "To Do items have lowest context-switch cost")
        ELSE IF in_progress_allowed(is_critical) /\ in_progress # << >>
          THEN candidate_of(in_progress[1],
                   "Only considering In Progress for critical blocker requirements")
        ELSE NoCandidate

\* a critical blocker sent to the In Progress items first: the candidate then
\* depends on the requirement and not on the sprint's items alone
find_optimal_swap_candidate_in_progress_first(items, is_critical, points_needed) ==
    LET to_do == sort_by_points(items_with_status(items, "To Do"), << >>)
        in_review == sort_by_points(items_with_status(items, "In Review"), << >>)
        in_progress == sort_by_points(items_with_status(items, "In Progress"), << >>)
    IN  IF in_progress_allowed(is_critical) /\ in_progress # << >>
          THEN candidate_of(in_progress[1],
                   "Only considering In Progress for critical blocker requirements")
        ELSE IF to_do # << >>
          THEN candidate_of(to_do[1], "To Do items have lowest context-switch cost")
        ELSE IF in_review # << >>
          THEN candidate_of(in_review[1],
                   "In Review items are easier to defer than In Progress")
        ELSE NoCandidate

find_optimal_swap_candidate(items, is_critical, points_needed) ==
    LET to_do == sort_by_points(items_with_status(items, "To Do"), << >>)
        in_review == sort_by_points(items_with_status(items, "In Review"), << >>)
        in_progress == sort_by_points(items_with_status(items, "In Progress"), << >>)
    IN  IF to_do # << >>
          THEN candidate_of(to_do[1], "To Do items have lowest context-switch cost")
        ELSE IF in_review # << >>
          THEN candidate_of(in_review[1],
                   "In Review items are easier to defer than In Progress")
        ELSE IF in_progress_allowed(is_critical) /\ in_progress # << >>
          THEN candidate_of(in_progress[1],
                   "Only considering In Progress for critical blocker requirements")
        ELSE NoCandidate

\* the inner loop over one status group: stop at the first item reached with
\* total_points >= points_needed
RECURSIVE take_until(_, _, _)
take_until(sorted_items, points_needed, acc) ==
    IF sorted_items = << >> \/ acc.total_points >= points_needed THEN acc
    ELSE take_until(Tail(sorted_items), points_needed,
             [candidates |-> Append(acc.candidates, Head(sorted_items)),
              total_points |-> acc.total_points
                               + Get(Head(sorted_items), "story_points", 0)])

\* the loop going over the "To Do" items only
find_multiple_swap_candidates_to_do_only(items, is_critical, points_needed) ==
    LET after_to_do ==
            take_until(sort_by_points(items_with_status(items, "To Do"), << >>),
                       points_needed, [candidates |-> << >>, total_points |-> 0])
    IN  IF after_to_do.total_points >= points_needed
        THEN [found |-> TRUE, candidates |-> after_to_do.candidates]
        ELSE [found |-> FALSE, candidates |-> << >>]

\* the statuses the loop goes over are "To Do" and "In Review" only
find_multiple_swap_candidates(items, is_critical, points_needed) ==
    LET after_to_do ==
            take_until(sort_by_points(items_with_status(items, "To Do"), << >>),
                       points_needed, [candidates |-> << >>, total_points |-> 0])
        after_in_review ==
            IF after_to_do.total_points >= points_needed THEN after_to_do
            ELSE take_until(sort_by_points(items_with_status(items, "In Review"), << >>),
                            points_needed, after_to_do)
    IN  IF after_in_review.total_points >= points_needed
        THEN [found |-> TRUE, candidates |-> after_in_review.candidates]
        ELSE [found |-> FALSE, candidates |-> << >>]

RECURSIVE sum_story_points(_)
sum_story_points(items) ==
    IF items = << >> THEN 0
    ELSE Get(Head(items), "story_points", 0) + sum_story_points(Tail(items))

\* an item that fills the remaining capacity exactly no longer fits
fits_remaining_strictly(new_points, remaining_capacity) == new_points < remaining_capacity

fits_remaining(new_points, remaining_capacity) == new_points <= remaining_capacity

not_worth_switching(value_net) == float_le(value_net, Zero)

\* the numeric fields filled in only for a decision that names a target
decision_values_only_with_target(action, target, checked, values) ==
    [action |-> action,
     target_to_remove |-> target,
     constraints_checked |-> checked,
     new_item_value |-> IF values = << >> \/ target = NoneId THEN NoneValue ELSE <<values[1]>>,
     removed_item_value |-> IF values = << >> \/ target = NoneId THEN NoneValue ELSE <<values[2]>>,
     switch_cost |-> IF values = << >> \/ target = NoneId THEN NoneValue ELSE <<values[3]>>,
     value_net |-> IF values = << >> \/ target = NoneId THEN NoneValue ELSE <<values[4]>>]

decision(action, target, checked, values) ==
    [action |-> action,
     target_to_remove |-> target,
     constraints_checked |-> checked,
     new_item_value |-> IF values = << >> THEN NoneValue ELSE <<values[1]>>,
     removed_item_value |-> IF values = << >> THEN NoneValue ELSE <<values[2]>>,
     switch_cost |-> IF values = << >> THEN NoneValue ELSE <<values[3]>>,
     value_net |-> IF values = << >> THEN NoneValue ELSE <<values[4]>>]

\* a prediction without the key counted as one day of impact
productivity_impact_of_default_day(productivity_model) ==
    IF DOMAIN productivity_model = {} THEN 0
    ELSE Get(productivity_model, "productivity_impact", 1)

\* productivity_model.get("productivity_impact", 0.0) if productivity_model else 0.0
productivity_impact_of(productivity_model) ==
    IF DOMAIN productivity_model = {} THEN 0
    ELSE Get(productivity_model, "productivity_impact", 0)

\* the critical-blocker check left out: every positive net value is a SWAP
value_comparison_never_critical(ticket, sprint, items, productivity_model, removed_item, is_critical_blocker, checked) ==
    LET new_value == calculate_ticket_value(ticket)
        removed_value == calculate_ticket_value(removed_item)
        in_progress_count == Len(SelectSeq(items, LAMBDA i : Get(i, "status", NoneId) = "In Progress"))
        switch_cost == calculate_context_switching_cost(
                           removed_item,
                           Get(sprint, "status", NoneId) = "active",
                           in_progress_count,
                           productivity_impact_of(productivity_model))
        switch_cost_value == convert_cost_to_value(switch_cost)
        value_net == float_sub(new_value, float_add(removed_value, switch_cost_value))
        checked_b == Append(checked, "Context-Switching-Tax: Net value")
        values == <<new_value, removed_value, switch_cost_value, value_net>>
    IN  IF not_worth_switching(value_net)
          THEN decision("DEFER", NoneId, checked_b, values)
        ELSE decision("SWAP", Get(removed_item, "id", NoneId),
                      Append(checked_b, "All-Constraints-Satisfied"), values)

\* lines 330-383: the context switching tax and what follows it
value_comparison(ticket, sprint, items, productivity_model, removed_item, is_critical_blocker, checked) ==
    LET new_value == calculate_ticket_value(ticket)
        removed_value == calculate_ticket_value(removed_item)
        in_progress_count == Len(SelectSeq(items, LAMBDA i : Get(i, "status", NoneId) = "In Progress"))
        switch_cost == calculate_context_switching_cost(
                           removed_item,
                           Get(sprint, "status", NoneId) = "active",
                           in_progress_count,
                           productivity_impact_of(productivity_model))
        switch_cost_value == convert_cost_to_value(switch_cost)
        value_net == float_sub(new_value, float_add(removed_value, switch_cost_value))
        checked_b == Append(checked, "Context-Switching-Tax: Net value")
        values == <<new_value, removed_value, switch_cost_value, value_net>>
    IN  IF not_worth_switching(value_net)
          THEN decision("DEFER", NoneId, checked_b, values)
        ELSE IF is_critical_blocker
          THEN decision("CRITICAL", Get(removed_item, "id", NoneId),
                        Append(checked_b, "Critical-Path-Detection"), values)
        ELSE decision("SWAP", Get(removed_item, "id", NoneId),
                      Append(checked_b, "All-Constraints-Satisfied"), values)

RecommendationEngine_assess_sprint_interruption(ticket, sprint, items, productivity_model) ==
    LET new_points == Get(ticket, "story_points", 0)
        new_priority == Get(ticket, "priority", "Medium")
        is_critical_blocker == new_priority = "Highest" /\ is_blocker(ticket)
        sprint_capacity == Get(Get(sprint, "metrics", << >>), "committedSP", 30)
        current_points == sum_story_points(items)
        remaining_capacity == sprint_capacity - current_points
        points_deficit == new_points - remaining_capacity
        checked_a == <<"Zero-Sum: Need to remove SP">>
        swap_candidate ==
            find_optimal_swap_candidate(items, is_critical_blocker, points_deficit)
    IN  IF fits_remaining(new_points, remaining_capacity)
          THEN decision("ACCEPT", NoneId, <<"Zero-Sum: Fits without removal">>, << >>)
        ELSE IF ~swap_candidate.found
          THEN decision("DEFER", NoneId,
                        Append(checked_a, "WIP-Safety: No viable swap candidates"), << >>)
        ELSE IF swap_candidate.total_removed_points < points_deficit /\ new_points > 8
          THEN decision("SPLIT", NoneId,
                        Append(checked_a, "Split-Feasibility: Large item can be split"),
                        << >>)
        ELSE IF /\ swap_candidate.total_removed_points < points_deficit
                /\ LET multiple_candidates ==
                           find_multiple_swap_candidates(items, is_critical_blocker,
                                                         points_deficit)
                   IN  multiple_candidates.found /\ multiple_candidates.candidates # << >>
          THEN decision("DEFER", NoneId,
                        Append(checked_a, "Zero-Sum: Multiple items for swap"), << >>)
        ELSE value_comparison(ticket, sprint, items, productivity_model,
                              swap_candidate.item, is_critical_blocker, checked_a)

\* the module's entry point: the prediction is the ticket's own "ml_analysis"
assess_sprint_interruption(ticket, sprint, items) ==
    RecommendationEngine_assess_sprint_interruption(
        ticket, sprint, items, Get(ticket, "ml_analysis", << >>))

-----------------------------------------------------------------------------
(* Interruption requests *)

MaxItems == 3

ItemIdName == <<"I1", "I2", "I3", "I4">>
ItemStatuses == {"To Do", "In Review", "In Progress", "Done"}
ItemStoryPoints == {2, 8}
ItemPriorities == {"High"}

SprintItemsAt(i) ==
    {[id |-> ItemIdName[i], story_points |-> sp, status |-> st, priority |-> pr] :
        sp \in ItemStoryPoints, st \in ItemStatuses, pr \in ItemPriorities}

RECURSIVE SprintItemLists(_)
SprintItemLists(n) ==
    IF n = 0 THEN {<< >>}
    ELSE LET shorter == SprintItemLists(n - 1)
         IN  shorter \cup {Append(l, item) :
                              l \in {m \in shorter : Len(m) = n - 1},
                              item \in SprintItemsAt(n)}

EmptyDict == << >>

ActiveSprints ==
    {[id |-> "S1", status |-> st, metrics |-> m] :
        st \in {"active", "planned"},
        m \in {EmptyDict, [committedSP |-> 12]}}

NewTicketTexts ==
    {[title |-> <<"u","i">>],
     [title |-> <<"P","0">>]}
NewTicketStoryPoints == {2, 3, 9}
NewTicketPriorities == {"Highest", "Low"}
\* the third: a value whose net against an In Review item of priority High is
\* 0 in decimals and 2^-47 in the doubles of the source
NewTicketValues ==
    {EmptyDict,
     [business_value |-> 90],
     [business_value |-> 79, urgency |-> 20, risk_penalty |-> 2]}
NewTicketAnalyses == {EmptyDict, [ml_analysis |-> [productivity_impact |-> 1]]}

NewTickets ==
    {[id |-> "N1", story_points |-> sp, priority |-> pr] @@ text @@ val @@ ml :
        sp \in NewTicketStoryPoints, pr \in NewTicketPriorities,
        text \in NewTicketTexts, val \in NewTicketValues, ml \in NewTicketAnalyses}

InitInterrupt ==
    /\ tickets = << >>
    /\ order = << >>
    /\ new_ticket \in NewTickets
    /\ active_sprint \in ActiveSprints
    /\ sprint_items \in SprintItemLists(MaxItems)
    /\ ret = NoReturn
    /\ NoCallers
    /\ NoBackend

AssessSprintInterruption ==
    /\ ret' = [op |-> "assess_sprint_interruption", args |-> << >>,
               value |-> assess_sprint_interruption(new_ticket, active_sprint,
                                                    sprint_items)]
    /\ UNCHANGED <<backlogVars, requestVars, callerVars, backendVars>>

NextInterrupt == AssessSprintInterruption

SpecInterrupt == InitInterrupt /\ [][NextInterrupt]_vars

-----------------------------------------------------------------------------
(* 4. THE SERVICE ENDPOINT /assess-sprint-interruption (main.py)           *)

\* d[key] = value on a Python dict
Put(d, key, value) ==
    [k \in DOMAIN d \cup {key} |-> IF k = key THEN value ELSE d[k]]

\* the endpoint's own priority_map and its .get(..., 50)
endpoint_priority_map(priority) ==
    CASE priority = "Highest" -> 90
      [] priority = "High" -> 70
      [] priority = "Medium" -> 50
      [] priority = "Low" -> 30
      [] priority = "Lowest" -> 10
      [] OTHER -> 50

\* `if "business_value" not in ticket:` then business_value, urgency and
\* risk_penalty are all three assigned; otherwise the dict is left as it is.
set_value_defaults(ticket) ==
    IF "business_value" \in DOMAIN ticket THEN ticket
    ELSE LET from_priority == endpoint_priority_map(Get(ticket, "priority", "Medium"))
         IN  Put(Put(Put(ticket, "business_value", from_priority),
                     "urgency", from_priority),
                 "risk_penalty", 0)

\* the body of the endpoint: the request's dicts after the defaults, and the
\* result of the engine for them
assess_sprint_interruption_endpoint(ticket, sprint, items) ==
    LET with_defaults == set_value_defaults(ticket)
        items_with_defaults == [i \in 1..Len(items) |-> set_value_defaults(items[i])]
    IN  [new_ticket |-> with_defaults,
         sprint_items |-> items_with_defaults,
         result |-> assess_sprint_interruption(with_defaults, sprint,
                                               items_with_defaults)]

\* Requests to the endpoint. A request without "new_ticket" is the empty
\* ticket, one without "sprint_items" the empty list. No request of this
\* domain makes the engine raise, so the endpoint's `except` is never entered.
EndpointItemStatuses == {"To Do", "In Progress"}
EndpointItemValues ==
    {EmptyDict,
     [business_value |-> 20],
     [urgency |-> 20, risk_penalty |-> 10]}

EndpointItemsAt(i) ==
    {[id |-> ItemIdName[i], story_points |-> 2, status |-> st, priority |-> "High"] @@ val :
        st \in EndpointItemStatuses, val \in EndpointItemValues}

RECURSIVE EndpointItemLists(_)
EndpointItemLists(n) ==
    IF n = 0 THEN {<< >>}
    ELSE LET shorter == EndpointItemLists(n - 1)
         IN  shorter \cup {Append(l, item) :
                              l \in {m \in shorter : Len(m) = n - 1},
                              item \in EndpointItemsAt(n)}

EndpointSprint == [id |-> "S1", status |-> "active", metrics |-> [committedSP |-> 4]]

EndpointTicketValues ==
    {EmptyDict,
     [business_value |-> 90],
     [urgency |-> 20, risk_penalty |-> 10],
     [business_value |-> 90, urgency |-> 20, risk_penalty |-> 10]}
EndpointTicketAnalyses ==
    {EmptyDict,
     [ml_analysis |-> EmptyDict],
     [ml_analysis |-> [predicted_hours |-> 5]],
     [ml_analysis |-> [productivity_impact |-> 0]],
     [ml_analysis |-> [productivity_impact |-> 1]]}

EndpointTickets ==
    {EmptyDict}
    \cup {[id |-> "N1", title |-> <<"P","0">>, story_points |-> sp, priority |-> pr]
              @@ val @@ ml :
            sp \in {3, 9}, pr \in NewTicketPriorities,
            val \in EndpointTicketValues, ml \in EndpointTicketAnalyses}

InitEndpoint ==
    /\ tickets = << >>
    /\ order = << >>
    /\ new_ticket \in EndpointTickets
    /\ active_sprint = EndpointSprint
    /\ sprint_items \in EndpointItemLists(MaxItems)
    /\ ret = NoReturn
    /\ NoCallers
    /\ NoBackend

\* the dicts of the request are changed in place and live no longer than the
\* call: they are kept in ret.args, next to the result
AssessSprintInterruptionEndpoint ==
    LET done == assess_sprint_interruption_endpoint(new_ticket, active_sprint,
                                                    sprint_items)
    IN  /\ ret' = [op |-> "assess_sprint_interruption_endpoint",
                   args |-> [new_ticket |-> done.new_ticket,
                             sprint_items |-> done.sprint_items],
                   value |-> done.result]
        /\ UNCHANGED <<backlogVars, requestVars, callerVars, backendVars>>

NextEndpoint ==
    \/ AssessSprintInterruptionEndpoint
    \/ AssessSprintInterruption

SpecEndpoint == InitEndpoint /\ [][NextEndpoint]_vars

-----------------------------------------------------------------------------
(* 5. THE CALLER OF THE RECOMMENDATION ENGINE                               *)
(* The surrounding system that fetches a sprint's current items, calls the  *)
(* engine on that snapshot and applies the decision.  The engine call is    *)
(* the module's assess_sprint_interruption; fetching, the per-sprint mutual *)
(* exclusion and the application of a decision follow section 5 of the      *)
(* specification, no file under src/ applies a SWAP or CRITICAL decision.   *)

MaxCallers == 2

Callers == 1..MaxCallers

\* the callers inside the sprint's mutual-exclusion scope: nobody
NoHolder == {}

\* the engines hold no request while the caller or the backend is looked at
NoEngines ==
    /\ tickets = << >>
    /\ order = << >>
    /\ new_ticket = NoRequest
    /\ active_sprint = NoRequest
    /\ sprint_items = << >>
    /\ ret = NoReturn

BoardSprint == [id |-> "S1", status |-> "active", metrics |-> [committedSP |-> 12]]

BoardItemLists ==
    {<<[id |-> "I1", story_points |-> 2, status |-> s1, priority |-> "Low"],
       [id |-> "I2", story_points |-> p2, status |-> s2, priority |-> "Low"],
       [id |-> "I3", story_points |-> 8, status |-> s3, priority |-> "Low"]>> :
        s1 \in {"To Do", "In Review"}, p2 \in {1, 2},
        s2 \in {"To Do", "In Progress"}, s3 \in {"In Progress", "Done"}}

CallerTicketId == <<"N1", "N2", "N3">>

CallerTickets(c) ==
    {[id |-> CallerTicketId[c], title |-> <<"P", "0">>, story_points |-> sp,
      priority |-> pr] @@ val :
        sp \in {1, 2}, pr \in {"Highest", "Low"}, val \in NewTicketValues}

InitCallers ==
    /\ NoEngines
    /\ NoBackend
    /\ \E items \in BoardItemLists, serialised \in BOOLEAN :
           board = [items |-> items, lock |-> NoHolder, serialised |-> serialised,
                    removals |-> << >>]
    /\ \E request \in {f \in [Callers -> UNION {CallerTickets(c) : c \in Callers}] :
                           \A c \in Callers : f[c] \in CallerTickets(c)} :
           callers = [c \in Callers |->
                         [pc |-> "idle", new_ticket |-> request[c], snapshot |-> << >>,
                          result |-> << >>]]

\* an accepted or swapped-in requirement enters the sprint as a To Do item
as_sprint_item(ticket) == Put(ticket, "status", "To Do")

\* what applying a decision does to the sprint's items: SWAP and CRITICAL take
\* the target out and put the new item in, ACCEPT puts the new item in, DEFER
\* and SPLIT leave the sprint as it is
apply_decision(items, ticket, result) ==
    IF result.action \in {"SWAP", "CRITICAL"}
      THEN Append(SelectSeq(items, LAMBDA item : Get(item, "id", NoneId) # result.target_to_remove),
                  as_sprint_item(ticket))
    ELSE IF result.action = "ACCEPT"
      THEN Append(items, as_sprint_item(ticket))
    ELSE items

\* fetch current items: under the locking discipline the caller first enters
\* the sprint's mutual-exclusion scope
FetchItems(c) ==
    /\ callers[c].pc = "idle"
    /\ board.serialised => board.lock = NoHolder
    /\ callers' = [callers EXCEPT ![c].pc = "fetched", ![c].snapshot = board.items]
    /\ board' = [board EXCEPT !.lock = IF board.serialised THEN {c} ELSE NoHolder]
    /\ UNCHANGED <<backlogVars, requestVars, ret, backendVars>>

\* call engine: the decision for the caller's requirement on its snapshot
Evaluate(c) ==
    /\ callers[c].pc = "fetched"
    /\ callers' = [callers EXCEPT
                       ![c].pc = "evaluated",
                       ![c].result = assess_sprint_interruption(
                                         callers[c].new_ticket, BoardSprint,
                                         callers[c].snapshot)]
    /\ UNCHANGED <<backlogVars, requestVars, ret, board, backendVars>>

\* apply decision: the sprint's items are changed as of now, whatever the
\* snapshot was, and the mutual-exclusion scope is left
ApplyDecision(c) ==
    /\ callers[c].pc = "evaluated"
    /\ board' = [board EXCEPT
                     !.items = apply_decision(board.items, callers[c].new_ticket,
                                              callers[c].result),
                     !.removals = IF callers[c].result.target_to_remove # NoneId
                                  THEN Append(@, callers[c].result.target_to_remove)
                                  ELSE @,
                     !.lock = NoHolder]
    /\ callers' = [callers EXCEPT ![c].pc = "applied"]
    /\ UNCHANGED <<backlogVars, requestVars, ret, backendVars>>

Fetch == \E c \in Callers : FetchItems(c)
CallEngine == \E c \in Callers : Evaluate(c)
Apply == \E c \in Callers : ApplyDecision(c)

NextCallers ==
    \/ Fetch
    \/ CallEngine
    \/ Apply

SpecCallers == InitCallers /\ [][NextCallers]_vars

-----------------------------------------------------------------------------
(* 6. THE BACKEND: THE HANDLERS THAT WRITE THE DATABASE                     *)
(* src/backend/app/routes/impact.py, sprints.py, backlog.py, board.py and   *)
(* spaces.py, and src/backend/app/services/sprint_service.py.  The database *)
(* is the collections the handlers use: spaces, sprints and work_items,     *)
(* each in insertion order.  A handler is a coroutine: between two awaited  *)
(* database operations other requests run, and each database operation is   *)
(* atomic, so every awaited operation is one step of the model and the      *)
(* steps of the requests in flight interleave.  Story points are whole      *)
(* numbers (float(3) is 3.0).  Timestamps, and the fields no handler of the *)
(* model reads (description, assignee, flags, the duration and capacity of  *)
(* a sprint, the settings of a space), are left out of the documents, and a *)
(* field whose value would be None is left out with them: the handlers read *)
(* documents with .get().  The change_events and users collections are not  *)
(* kept.  What a handler returns through a pydantic response model is       *)
(* recorded as the document handed to that model.                           *)

MaxCalls == 2

CallIds == 1..MaxCalls

frontVars == <<tickets, order, new_ticket, active_sprint, sprint_items, ret, board, callers>>

\* ObjectId.is_valid: the ids of the model are valid but for this one
InvalidObjectId == "not-an-object-id"
ObjectId_is_valid(oid) == oid # InvalidObjectId

\* Python's truth value of what dict.get returned: a missing or empty dict is
\* false, and so is a missing or empty string
TruthyDict(d) == DOMAIN d # {}
TruthyString(s) == s # NoneId /\ s # ""

\* "$unset": the document without the field
Unset(d, key) == [k \in DOMAIN d \ {key} |-> d[k]]

\* "$set" of several fields: the document with the fields of update_data
set_fields(d, update_data) ==
    [k \in DOMAIN d \cup DOMAIN update_data |->
        IF k \in DOMAIN update_data THEN update_data[k] ELSE d[k]]

\* the _id insert_one gives the document a call inserts: the driver makes a
\* new ObjectId for each insert, and a call inserts at most one document into
\* a collection (the collections start with P1, S1, S2, W1, W2, W3)
InsertedId ==
    [spaces |-> <<"P2", "P3">>, sprints |-> <<"S3", "S4">>, work_items |-> <<"W4", "W5">>]

\* collection.find_one({"_id": oid}): << >> for None, else <<document>>
find_one(docs, oid) ==
    LET found == SelectSeq(docs, LAMBDA d : d._id = oid)
    IN  IF found = << >> THEN << >> ELSE <<Head(found)>>

\* collection.update_one({"_id": oid}, ...): the document of that _id changed,
\* nothing changed when the collection holds no such document
update_one(docs, oid, change(_)) ==
    [i \in DOMAIN docs |-> IF docs[i]._id = oid THEN change(docs[i]) ELSE docs[i]]

\* collection.update_many(filter, ...)
update_many(docs, matches(_), change(_)) ==
    [i \in DOMAIN docs |-> IF matches(docs[i]) THEN change(docs[i]) ELSE docs[i]]

\* collection.delete_one({"_id": oid}) and collection.delete_many(filter)
delete_one(docs, oid) == SelectSeq(docs, LAMBDA d : d._id # oid)
delete_many(docs, matches(_)) == SelectSeq(docs, LAMBDA d : ~matches(d))

\* cursor.to_list(length)
to_list(docs, length) == SubSeq(docs, 1, IF Len(docs) < length THEN Len(docs) ELSE length)

\* db.work_items.find({"sprint": ObjectId(sprint_id)}).to_list(500)
find_sprint_items(work_items, sprint_id) ==
    to_list(SelectSeq(work_items, LAMBDA item : Get(item, "sprint", NoneId) = sprint_id),
            500)

\* item.get("storyPoints", 0) or 0: the points of the document, 0 without them
story_points_or_zero(item) ==
    LET points == Get(item, "storyPoints", 0)
    IN  IF points # 0 THEN points ELSE 0

\* sum(item.get("storyPoints", 0) or 0 for item in all_items)
RECURSIVE sum_item_points(_)
sum_item_points(items) ==
    IF items = << >> THEN 0
    ELSE story_points_or_zero(Head(items)) + sum_item_points(Tail(items))

\* {"$set": {"metrics.<field>": value}} on a sprint document
set_metric(sprint, field, value) ==
    Put(sprint, "metrics", Put(Get(sprint, "metrics", EmptyDict), field, value))

HttpError(code, detail) == [status_code |-> code, detail |-> detail]

\* `except Exception as e: raise HTTPException(500, detail=str(e))`
InternalError(cause) == [status_code |-> 500, cause |-> cause]

\* an exception that is no HTTPException
Raised(exception) == [exception |-> exception]

\* the state of a request that has not run yet: its arguments, its local
\* variables unassigned
new_call(op, arguments, locals) ==
    [op |-> op, pc |-> "called", response |-> EmptyDict] @@ arguments @@ locals

\* the handler returns or raises
finish(call, response) == [call EXCEPT !.pc = "done", !.response = response]

\* ---- apply_recommendation (routes/impact.py) ----

\* the checks of apply_recommendation before its first database operation
apply_recommendation_rejects(sprint_id, body) ==
    LET option == Get(body, "option", EmptyDict)
        item_data == Get(body, "itemData", EmptyDict)
    IN  IF ~ObjectId_is_valid(sprint_id)
          THEN <<HttpError(400, "Invalid sprint ID")>>
        ELSE IF ~TruthyDict(option) \/ ~TruthyString(Get(option, "type", NoneId))
          THEN <<HttpError(400, "Invalid option: type is required")>>
        ELSE IF ~TruthyDict(item_data) \/ ~TruthyString(Get(item_data, "title", NoneId))
          THEN <<HttpError(400, "Invalid itemData: title is required")>>
        ELSE << >>

InsertingOptionTypes == {"defer_to_next_sprint", "accept_with_mitigation", "accept"}

\* the message of the response: that of the branch taken, "" without a branch
message_of(option_type) ==
    IF option_type = "defer_to_next_sprint"
      THEN "Requirement deferred to next sprint. Added to backlog."
    ELSE IF option_type = "accept_with_mitigation"
      THEN "Requirement added to sprint with mitigations."
    ELSE IF option_type = "accept"
      THEN "Requirement added to sprint."
    ELSE ""

\* the document apply_recommendation inserts for the option type
new_work_item(item_id, sprint, sprint_id, option_type, item_data) ==
    LET space == IF "space" \in DOMAIN sprint THEN [space |-> sprint.space] ELSE EmptyDict
        backlog_item ==
            [_id |-> item_id,
             title |-> item_data.title,
             storyPoints |-> Get(item_data, "storyPoints", 1),
             priority |-> "High",
             type |-> Get(item_data, "type", "Story"),
             status |-> "To Do"] @@ space
    IN  IF option_type = "defer_to_next_sprint" THEN backlog_item
        ELSE Put(Put(backlog_item, "priority", Get(item_data, "priority", "Medium")),
                 "sprint", sprint_id)

\* the requests of the model: a sprint that exists, an id that names no sprint
\* and one that is no ObjectId
ApplySprintIds == {"S1", "S9", InvalidObjectId}

ApplyBodies ==
    {[option |-> [type |-> "accept"], itemData |-> [title |-> "a", storyPoints |-> 3]],
     [option |-> [type |-> "accept_with_mitigation"], itemData |-> [title |-> "b"]],
     [option |-> [type |-> "defer_to_next_sprint"],
      itemData |-> [title |-> "c", storyPoints |-> 5]],
     [option |-> [type |-> "swap"], itemData |-> [title |-> "d", storyPoints |-> 2]],
     [option |-> [label |-> "e"], itemData |-> [title |-> "e"]],
     [option |-> [type |-> "accept"], itemData |-> [storyPoints |-> 3]],
     [itemData |-> [title |-> "g"]]}

ApplyRequests ==
    {[sprint_id |-> "S1", body |-> body] : body \in ApplyBodies}
    \cup {[sprint_id |-> sid, body |-> [option |-> [type |-> "accept"],
                                         itemData |-> [title |-> "a", storyPoints |-> 3]]] :
              sid \in ApplySprintIds}

ApplyCalls ==
    {new_call("apply_recommendation", request,
              [sprint |-> EmptyDict, created_items |-> << >>, all_items |-> << >>,
               new_committed_sp |-> 0]) : request \in ApplyRequests}

\* lines 397-424: the checks and `await db.sprints.find_one(...)`
ApplyFindSprint(c) ==
    LET call == calls[c]
        rejected == apply_recommendation_rejects(call.sprint_id, call.body)
        sprint == find_one(db.sprints, call.sprint_id)
    IN  /\ call.op = "apply_recommendation"
        /\ call.pc = "called"
        /\ calls' = [calls EXCEPT ![c] =
               IF rejected # << >> THEN finish(call, rejected[1])
               ELSE IF sprint = << >> THEN finish(call, HttpError(404, "Sprint not found"))
               ELSE [call EXCEPT
                        !.sprint = sprint[1],
                        !.pc = IF call.body.option.type \in InsertingOptionTypes
                               THEN "insert_item" ELSE "find_items"]]
        /\ UNCHANGED <<frontVars, db>>

\* lines 431-460: `await db.work_items.insert_one(...)` of either branch
ApplyInsertItem(c) ==
    LET call == calls[c]
        item_id == InsertedId.work_items[c]
    IN  /\ call.op = "apply_recommendation"
        /\ call.pc = "insert_item"
        /\ db' = [db EXCEPT !.work_items =
                      Append(@, new_work_item(item_id, call.sprint, call.sprint_id,
                                              call.body.option.type, call.body.itemData))]
        /\ calls' = [calls EXCEPT ![c] =
               [call EXCEPT !.pc = "find_items",
                            !.created_items = <<[id |-> item_id,
                                                 title |-> call.body.itemData.title]>>]]
        /\ UNCHANGED frontVars

\* lines 463-464: `await db.work_items.find(...).to_list(500)` and the sum
ApplyFindItems(c) ==
    LET call == calls[c]
        all_items == find_sprint_items(db.work_items, call.sprint_id)
    IN  /\ call.op = "apply_recommendation"
        /\ call.pc = "find_items"
        /\ calls' = [calls EXCEPT ![c] =
               [call EXCEPT !.pc = "update_sprint",
                            !.all_items = all_items,
                            !.new_committed_sp = sum_item_points(all_items)]]
        /\ UNCHANGED <<frontVars, db>>

\* lines 466-481: `await db.sprints.update_one(...)` and the response
ApplyUpdateSprint(c) ==
    LET call == calls[c]
    IN  /\ call.op = "apply_recommendation"
        /\ call.pc = "update_sprint"
        /\ db' = [db EXCEPT !.sprints =
                      update_one(@, call.sprint_id,
                                 LAMBDA sprint : set_metric(sprint, "committedSP",
                                                            call.new_committed_sp))]
        /\ calls' = [calls EXCEPT ![c] =
               finish(call, [success |-> TRUE,
                             message |-> message_of(call.body.option.type),
                             createdItems |-> call.created_items,
                             updatedSprint |->
                                 [id |-> call.sprint_id,
                                  name |-> Get(call.sprint, "name", NoneId),
                                  workItemCount |-> Len(call.all_items),
                                  committedSP |-> call.new_committed_sp]])]
        /\ UNCHANGED frontVars

\* ---- complete_sprint (routes/sprints.py and services/sprint_service.py) ----

CompleteSprintIds == {"S1", "S2", "S9", InvalidObjectId}

\* the Done items' story points: sum(... for item in items if item.get("status") == "Done")
done_points(items) ==
    sum_item_points(SelectSeq(items, LAMBDA item : Get(item, "status", NoneId) = "Done"))

HandlerCalls ==
    {new_call("complete_sprint_handler", [sprint_id |-> sid],
              [sprint |-> EmptyDict, completed_sp |-> 0, committed_sp |-> 0,
               spillover_sp |-> 0]) : sid \in CompleteSprintIds}

\* complete_sprint_handler, lines 273-279, and complete_sprint, lines 36-41:
\* the id check and `await db.sprints.find_one(...)`.  Whatever is raised
\* inside the handler's try, an HTTPException included, leaves as a 500
HandlerFindSprint(c) ==
    LET call == calls[c]
        sprint == find_one(db.sprints, call.sprint_id)
    IN  /\ call.op = "complete_sprint_handler"
        /\ call.pc = "called"
        /\ calls' = [calls EXCEPT ![c] =
               IF ~ObjectId_is_valid(call.sprint_id)
                 THEN finish(call, InternalError(HttpError(400, "Invalid sprint ID")))
               ELSE IF sprint = << >>
                 THEN finish(call, InternalError(HttpError(404, "Sprint not found")))
               ELSE [call EXCEPT !.sprint = sprint[1], !.pc = "find_items"]]
        /\ UNCHANGED <<frontVars, db>>

\* complete_sprint, lines 44-49: `await db.work_items.find(...).to_list(500)`
\* and the metrics; a sprint of any status is completed
HandlerFindItems(c) ==
    LET call == calls[c]
        items == find_sprint_items(db.work_items, call.sprint_id)
        completed_sp == done_points(items)
        committed_sp == Get(Get(call.sprint, "metrics", EmptyDict), "committedSP", 0)
    IN  /\ call.op = "complete_sprint_handler"
        /\ call.pc = "find_items"
        /\ calls' = [calls EXCEPT ![c] =
               [call EXCEPT
                   !.pc = "update_sprint",
                   !.completed_sp = completed_sp,
                   !.committed_sp = committed_sp,
                   !.spillover_sp = IF committed_sp > completed_sp
                                    THEN committed_sp - completed_sp ELSE 0]]
        /\ UNCHANGED <<frontVars, db>>

\* complete_sprint, lines 52-63: `await db.sprints.update_one(...)`
HandlerUpdateSprint(c) ==
    LET call == calls[c]
        completed(sprint) ==
            set_metric(set_metric(set_metric(Put(sprint, "status", "completed"),
                                             "completedSP", call.completed_sp),
                                  "spilloverSP", call.spillover_sp),
                       "velocity", call.completed_sp)
    IN  /\ call.op = "complete_sprint_handler"
        /\ call.pc = "update_sprint"
        /\ db' = [db EXCEPT !.sprints = update_one(@, call.sprint_id, completed)]
        /\ calls' = [calls EXCEPT ![c] = [call EXCEPT !.pc = "update_items"]]
        /\ UNCHANGED frontVars

\* complete_sprint, lines 66-79: `await db.work_items.update_many(...)` moves
\* the items that are not Done back to the backlog, and the result
HandlerUpdateItems(c) ==
    LET call == calls[c]
    IN  /\ call.op = "complete_sprint_handler"
        /\ call.pc = "update_items"
        /\ db' = [db EXCEPT !.work_items =
                      update_many(@,
                                  LAMBDA item : /\ Get(item, "sprint", NoneId) = call.sprint_id
                                                /\ Get(item, "status", NoneId) # "Done",
                                  LAMBDA item : Unset(item, "sprint"))]
        /\ calls' = [calls EXCEPT ![c] =
               finish(call, [success |-> TRUE,
                             metrics |-> [completedSP |-> call.completed_sp,
                                          committedSP |-> call.committed_sp,
                                          spilloverSP |-> call.spillover_sp,
                                          velocity |-> call.completed_sp]])]
        /\ UNCHANGED frontVars

\* f"Sprint {order}"
SprintName == <<"Sprint 1", "Sprint 2", "Sprint 3", "Sprint 4", "Sprint 5">>

\* the metrics of a new sprint
NewSprintMetrics ==
    [committedSP |-> 0, completedSP |-> 0, spilloverSP |-> 0, velocity |-> 0,
     averageCompletionRate |-> Literal((4 * UNIT) \div 5), prevSprintVelocity |-> 0]

\* the sprint document the service inserts when there is no next sprint
next_sprint_document(sprint_id, sprint) ==
    [_id |-> sprint_id,
     name |-> SprintName[Get(sprint, "order", 1) + 1],
     status |-> "planned",
     order |-> Get(sprint, "order", 1) + 1,
     metrics |-> NewSprintMetrics]
    @@ (IF "space" \in DOMAIN sprint THEN [space |-> sprint.space] ELSE EmptyDict)

\* db.sprints.find_one({"space": ..., "order": n}): the first sprint of that
\* space and order
find_next_sprint(sprints, sprint) ==
    LET found == SelectSeq(sprints,
                           LAMBDA s : /\ Get(s, "space", NoneId) = Get(sprint, "space", NoneId)
                                      /\ "order" \in DOMAIN s
                                      /\ s.order = Get(sprint, "order", 1) + 1)
    IN  IF found = << >> THEN << >> ELSE <<Head(found)>>

\* the "$set" of the loop over remaining_items: each goes to the next sprint,
\* a Task or Subtask back to "To Do"
move_to_sprint(item, remaining_item, next_sprint_id) ==
    LET moved == Put(item, "sprint", next_sprint_id)
    IN  IF Get(remaining_item, "type", NoneId) \in {"Task", "Subtask"}
        THEN Put(moved, "status", "To Do") ELSE moved

ServiceCalls ==
    {new_call("sprint_service.complete_sprint", [sprint_id |-> sid],
              [sprint |-> EmptyDict, done_sp |-> 0, committed_sp |-> 0,
               remaining_items |-> << >>, spillover_sp |-> 0, next_sprint |-> << >>,
               inserted_id |-> NoneId, moved |-> 0]) : sid \in CompleteSprintIds}

\* services/sprint_service.py complete_sprint, lines 33-39: ObjectId(sprint_id)
\* raises for an id that is none, then `await db.sprints.find_one(...)`; only
\* an active sprint is completed
ServiceFindSprint(c) ==
    LET call == calls[c]
        sprint == find_one(db.sprints, call.sprint_id)
    IN  /\ call.op = "sprint_service.complete_sprint"
        /\ call.pc = "called"
        /\ calls' = [calls EXCEPT ![c] =
               IF ~ObjectId_is_valid(call.sprint_id) THEN finish(call, Raised("InvalidId"))
               ELSE IF sprint = << >> THEN finish(call, Raised("Sprint not found"))
               ELSE IF Get(sprint[1], "status", NoneId) # "active"
                 THEN finish([call EXCEPT !.sprint = sprint[1]],
                             Raised("Only active sprints can be completed"))
               ELSE [call EXCEPT !.sprint = sprint[1], !.pc = "find_items"]]
        /\ UNCHANGED <<frontVars, db>>

\* lines 41-47: `await db.work_items.find(...).to_list(500)` and the metrics
ServiceFindItems(c) ==
    LET call == calls[c]
        items == find_sprint_items(db.work_items, call.sprint_id)
        done_sp == done_points(items)
        given_sp == Get(Get(call.sprint, "metrics", EmptyDict), "committedSP", 0)
        committed_sp == IF given_sp # 0 THEN given_sp ELSE sum_item_points(items)
    IN  /\ call.op = "sprint_service.complete_sprint"
        /\ call.pc = "find_items"
        /\ calls' = [calls EXCEPT ![c] =
               [call EXCEPT
                   !.pc = "find_next",
                   !.done_sp = done_sp,
                   !.committed_sp = committed_sp,
                   !.remaining_items =
                       SelectSeq(items, LAMBDA item : Get(item, "status", NoneId) # "Done"),
                   !.spillover_sp = committed_sp - done_sp]]
        /\ UNCHANGED <<frontVars, db>>

\* lines 83-94, from the moment next_sprint is known to the next await: the
\* loop's first update_one or, without remaining items, the sprint's
\* update_one; next_sprint.get raises when next_sprint is None
service_with_next(call, next_sprint) ==
    IF call.remaining_items = << >>
      THEN [call EXCEPT !.next_sprint = next_sprint, !.pc = "update_sprint"]
    ELSE IF next_sprint = << >>
      THEN finish(call, Raised("AttributeError"))
    ELSE [call EXCEPT !.next_sprint = next_sprint, !.pc = "move_item"]

\* lines 50-55: `await db.sprints.find_one({"space": ..., "order": ...})`
ServiceFindNext(c) ==
    LET call == calls[c]
        next_sprint == find_next_sprint(db.sprints, call.sprint)
    IN  /\ call.op = "sprint_service.complete_sprint"
        /\ call.pc = "find_next"
        /\ calls' = [calls EXCEPT ![c] =
               IF next_sprint = << >> THEN [call EXCEPT !.pc = "insert_next"]
               ELSE service_with_next(call, next_sprint)]
        /\ UNCHANGED <<frontVars, db>>

\* lines 56-79: `await db.sprints.insert_one(...)`
ServiceInsertNext(c) ==
    LET call == calls[c]
    IN  /\ call.op = "sprint_service.complete_sprint"
        /\ call.pc = "insert_next"
        /\ db' = [db EXCEPT !.sprints =
                      Append(@, next_sprint_document(InsertedId.sprints[c], call.sprint))]
        /\ calls' = [calls EXCEPT ![c] =
               [call EXCEPT !.pc = "find_inserted", !.inserted_id = InsertedId.sprints[c]]]
        /\ UNCHANGED frontVars

\* line 80: `await db.sprints.find_one({"_id": inserted_id})`
ServiceFindInserted(c) ==
    LET call == calls[c]
    IN  /\ call.op = "sprint_service.complete_sprint"
        /\ call.pc = "find_inserted"
        /\ calls' = [calls EXCEPT ![c] =
               service_with_next(call, find_one(db.sprints, call.inserted_id))]
        /\ UNCHANGED <<frontVars, db>>

\* lines 83-91: one `await db.work_items.update_one(...)` of the loop over
\* remaining_items
ServiceMoveItem(c) ==
    LET call == calls[c]
        item == call.remaining_items[call.moved + 1]
    IN  /\ call.op = "sprint_service.complete_sprint"
        /\ call.pc = "move_item"
        /\ db' = [db EXCEPT !.work_items =
                      update_one(@, item._id,
                                 LAMBDA found : move_to_sprint(found, item,
                                                               call.next_sprint[1]._id))]
        /\ calls' = [calls EXCEPT ![c] =
               [call EXCEPT !.moved = @ + 1,
                            !.pc = IF call.moved + 1 = Len(call.remaining_items)
                                   THEN "update_sprint" ELSE "move_item"]]
        /\ UNCHANGED frontVars

\* lines 94-114: `await db.sprints.update_one(...)` of the completed sprint,
\* then next_sprint.get("_id"), which raises when next_sprint is None
ServiceUpdateSprint(c) ==
    LET call == calls[c]
        metrics == Get(call.sprint, "metrics", EmptyDict)
        completed(sprint) ==
            Put(Put(sprint, "status", "completed"), "metrics",
                [committedSP |-> call.committed_sp,
                 completedSP |-> call.done_sp,
                 spilloverSP |-> call.spillover_sp,
                 velocity |-> call.done_sp,
                 averageCompletionRate |->
                     Get(metrics, "averageCompletionRate", Literal((4 * UNIT) \div 5)),
                 prevSprintVelocity |-> Get(metrics, "prevSprintVelocity", 0)])
    IN  /\ call.op = "sprint_service.complete_sprint"
        /\ call.pc = "update_sprint"
        /\ db' = [db EXCEPT !.sprints = update_one(@, call.sprint_id, completed)]
        /\ calls' = [calls EXCEPT ![c] =
               IF call.next_sprint = << >> THEN finish(call, Raised("AttributeError"))
               ELSE [call EXCEPT !.pc = "update_next"]]
        /\ UNCHANGED frontVars

\* lines 113-133: `await db.sprints.update_one(...)` of the next sprint, and
\* the result
ServiceUpdateNext(c) ==
    LET call == calls[c]
    IN  /\ call.op = "sprint_service.complete_sprint"
        /\ call.pc = "update_next"
        /\ db' = [db EXCEPT !.sprints =
                      update_one(@, call.next_sprint[1]._id,
                                 LAMBDA sprint : set_metric(sprint, "prevSprintVelocity",
                                                            call.done_sp))]
        /\ calls' = [calls EXCEPT ![c] =
               finish(call, [completedSprint |-> call.sprint,
                             nextSprint |-> call.next_sprint[1],
                             movedItems |-> Len(call.remaining_items),
                             metrics |-> [committed |-> call.committed_sp,
                                          completed |-> call.done_sp,
                                          spillover |-> call.spillover_sp,
                                          velocity |-> call.done_sp]])]
        /\ UNCHANGED frontVars

\* ---- the sprint routes (routes/sprints.py) ----

SpaceIds == {"P1", "P9", InvalidObjectId}

\* int(duration[:-1]) of auto_dates_from_duration, lines 20-26: the days of
\* the durations of the model, << >> where int() raises ValueError
duration_days(duration) ==
    CASE duration = "2w" -> <<14>>
      [] duration = "10d" -> <<10>>
      [] duration = "w" -> << >>
      [] OTHER -> <<14>>

\* SprintCreate: name and order are None unless given, duration is "2w"
SprintCreates ==
    {[name |-> NoneId, order |-> 0, duration |-> "2w"],
     [name |-> "Hardening", order |-> 2, duration |-> "10d"],
     [name |-> NoneId, order |-> 0, duration |-> "w"]}

CreateSprintRequests ==
    {[space_id |-> "P1", sprint_create |-> sc] : sc \in SprintCreates}
    \cup {[space_id |-> space_id, sprint_create |-> [name |-> NoneId, order |-> 0,
                                                     duration |-> "2w"]] :
              space_id \in SpaceIds}

CreateSprintCalls ==
    {new_call("create_sprint", request, [order |-> 0]) : request \in CreateSprintRequests}

\* db.sprints.find_one({"space": ...}, sort=[("order", -1)]): a sprint of the
\* space of the greatest order
last_sprint_order(sprints, space_id) ==
    LET orders == {sprints[i].order : i \in {j \in DOMAIN sprints :
                                                  Get(sprints[j], "space", NoneId) = space_id}}
    IN  IF orders = {} THEN << >>
        ELSE <<CHOOSE o \in orders : \A other \in orders : other <= o>>

\* create_sprint, lines 105-116: the id check, `await db.sprints.find_one(...)`
\* and the dates of the duration
CreateSprintFindLast(c) ==
    LET call == calls[c]
        last_order == last_sprint_order(db.sprints, call.space_id)
    IN  /\ call.op = "create_sprint"
        /\ call.pc = "called"
        /\ calls' = [calls EXCEPT ![c] =
               IF ~ObjectId_is_valid(call.space_id)
                 THEN finish(call, HttpError(400, "Invalid space ID"))
               ELSE IF duration_days(call.sprint_create.duration) = << >>
                 THEN finish(call, InternalError(Raised("ValueError")))
               ELSE [call EXCEPT !.pc = "insert",
                                 !.order = IF last_order = << >> THEN 1
                                           ELSE last_order[1] + 1]]
        /\ UNCHANGED <<frontVars, db>>

\* sprint_data of create_sprint, lines 118-141
new_sprint_document(sprint_id, space_id, sprint_create, sprint_order) ==
    [_id |-> sprint_id,
     space |-> space_id,
     name |-> IF TruthyString(sprint_create.name) THEN sprint_create.name
              ELSE SprintName[sprint_order],
     status |-> "planned",
     order |-> IF sprint_create.order # 0 THEN sprint_create.order ELSE sprint_order,
     metrics |-> NewSprintMetrics]

\* create_sprint, lines 143-146: `await db.sprints.insert_one(...)`
CreateSprintInsert(c) ==
    LET call == calls[c]
        sprint_data == new_sprint_document(InsertedId.sprints[c], call.space_id,
                                           call.sprint_create, call.order)
    IN  /\ call.op = "create_sprint"
        /\ call.pc = "insert"
        /\ db' = [db EXCEPT !.sprints = Append(@, sprint_data)]
        /\ calls' = [calls EXCEPT ![c] = finish(call, [document |-> sprint_data])]
        /\ UNCHANGED frontVars

DeleteSprintCalls ==
    {new_call("delete_sprint", [sprint_id |-> sid], EmptyDict) : sid \in CompleteSprintIds}

\* delete_sprint, lines 159-169: the id check and `await
\* db.work_items.update_many(...)`, which moves the sprint's items back to the
\* backlog
DeleteSprintUnassign(c) ==
    LET call == calls[c]
    IN  /\ call.op = "delete_sprint"
        /\ call.pc = "called"
        /\ IF ~ObjectId_is_valid(call.sprint_id)
           THEN /\ calls' = [calls EXCEPT ![c] =
                       finish(call, HttpError(400, "Invalid sprint ID"))]
                /\ db' = db
           ELSE /\ calls' = [calls EXCEPT ![c] = [call EXCEPT !.pc = "delete"]]
                /\ db' = [db EXCEPT !.work_items =
                             update_many(@,
                                         LAMBDA item :
                                             Get(item, "sprint", NoneId) = call.sprint_id,
                                         LAMBDA item : Unset(item, "sprint"))]
        /\ UNCHANGED frontVars

\* delete_sprint, lines 172-180: `await db.sprints.delete_one(...)`
DeleteSprintDelete(c) ==
    LET call == calls[c]
    IN  /\ call.op = "delete_sprint"
        /\ call.pc = "delete"
        /\ db' = [db EXCEPT !.sprints = delete_one(@, call.sprint_id)]
        /\ calls' = [calls EXCEPT ![c] =
               IF find_one(db.sprints, call.sprint_id) = << >>
               THEN finish(call, HttpError(404, "Sprint not found"))
               ELSE finish(call, [ok |-> TRUE])]
        /\ UNCHANGED frontVars

\* SprintUpdate: the fields of the request, None where the request has none
SprintUpdates ==
    {EmptyDict,
     [status |-> "active"],
     [status |-> "completed", name |-> "Closed"],
     [name |-> "", status |-> ""],
     [metrics |-> [committedSP |-> 7]]}

\* update_data of update_sprint, lines 199-213; sprint_update.metrics.dict() is
\* the six metrics, those the request does not give at their defaults
sprint_update_data(sprint_update) ==
    LET text(key) == IF TruthyString(Get(sprint_update, key, NoneId))
                     THEN [k \in {key} |-> sprint_update[key]] ELSE EmptyDict
        metrics == IF "metrics" \in DOMAIN sprint_update
                   THEN [metrics |-> set_fields(NewSprintMetrics, sprint_update.metrics)]
                   ELSE EmptyDict
    IN  text("name") @@ text("status") @@ metrics

UpdateSprintRequests ==
    {[sprint_id |-> "S1", sprint_update |-> su] : su \in SprintUpdates}
    \cup {[sprint_id |-> sid, sprint_update |-> [status |-> "active"]] :
              sid \in CompleteSprintIds}

UpdateSprintCalls ==
    {new_call("update_sprint", request, EmptyDict) : request \in UpdateSprintRequests}

\* collection.find_one_and_update({"_id": oid}, {"$set": update_data},
\* return_document=True): the collection after it, and the document returned
find_one_and_update(docs, oid, update_data) ==
    LET after == update_one(docs, oid, LAMBDA d : set_fields(d, update_data))
    IN  [docs |-> after, result |-> find_one(after, oid)]

\* update_sprint, lines 193-229
UpdateSprint(c) ==
    LET call == calls[c]
        updated == find_one_and_update(db.sprints, call.sprint_id,
                                       sprint_update_data(call.sprint_update))
    IN  /\ call.op = "update_sprint"
        /\ call.pc = "called"
        /\ IF ~ObjectId_is_valid(call.sprint_id)
           THEN /\ calls' = [calls EXCEPT ![c] =
                       finish(call, HttpError(400, "Invalid sprint ID"))]
                /\ db' = db
           ELSE /\ db' = [db EXCEPT !.sprints = updated.docs]
                /\ calls' = [calls EXCEPT ![c] =
                       IF updated.result = << >>
                       THEN finish(call, HttpError(404, "Sprint not found"))
                       ELSE finish(call, [document |-> updated.result[1]])]
        /\ UNCHANGED frontVars

StartSprintCalls ==
    {new_call("start_sprint", [sprint_id |-> sid], EmptyDict) : sid \in CompleteSprintIds}

\* start_sprint, lines 242-260: a sprint of any status becomes active
StartSprint(c) ==
    LET call == calls[c]
        updated == find_one_and_update(db.sprints, call.sprint_id, [status |-> "active"])
    IN  /\ call.op = "start_sprint"
        /\ call.pc = "called"
        /\ IF ~ObjectId_is_valid(call.sprint_id)
           THEN /\ calls' = [calls EXCEPT ![c] =
                       finish(call, HttpError(400, "Invalid sprint ID"))]
                /\ db' = db
           ELSE /\ db' = [db EXCEPT !.sprints = updated.docs]
                /\ calls' = [calls EXCEPT ![c] =
                       IF updated.result = << >>
                       THEN finish(call, HttpError(404, "Sprint not found"))
                       ELSE finish(call, [document |-> updated.result[1]])]
        /\ UNCHANGED frontVars

\* ---- the work item routes (routes/backlog.py, routes/board.py) ----

WorkItemIds == {"W1", "W3", "W9", InvalidObjectId}

\* WorkItemResponse(**document) of services/models.py: id (alias "_id"), space
\* and sprint are Optional[str]; a document of the database holds an ObjectId
\* under each of them that it has, which is no str, and the ValidationError
\* raised for it leaves the handler as HTTPException(500)
WorkItemResponse(document) ==
    IF \E key \in {"_id", "space", "sprint"} :
           key \in DOMAIN document /\ document[key] # NoneId
    THEN InternalError(Raised("ValidationError"))
    ELSE [document |-> document]

\* WorkItemCreate: type, status and title are required, priority is "Medium"
\* and storyPoints None unless given
WorkItemCreates ==
    {[type |-> "Story", status |-> "To Do", title |-> "n", priority |-> "Medium",
      storyPoints |-> 4],
     [type |-> "Task", status |-> "Done", title |-> "m", priority |-> "High"]}

CreateWorkItemRequests ==
    {[space_id |-> "P1", item |-> item] : item \in WorkItemCreates}
    \cup {[space_id |-> space_id, item |-> [type |-> "Task", status |-> "Done",
                                            title |-> "m", priority |-> "High"]] :
              space_id \in SpaceIds}

CreateWorkItemCalls ==
    {new_call("create_work_item", request, EmptyDict) : request \in CreateWorkItemRequests}

\* create_work_item, lines 19-46: the new item is of no sprint; the answer is
\* built after the item is written
CreateWorkItem(c) ==
    LET call == calls[c]
        item_data == call.item @@ [_id |-> InsertedId.work_items[c], space |-> call.space_id]
    IN  /\ call.op = "create_work_item"
        /\ call.pc = "called"
        /\ IF ~ObjectId_is_valid(call.space_id)
           THEN /\ calls' = [calls EXCEPT ![c] =
                       finish(call, HttpError(400, "Invalid space ID"))]
                /\ db' = db
           ELSE /\ db' = [db EXCEPT !.work_items = Append(@, item_data)]
                /\ calls' = [calls EXCEPT ![c] = finish(call, WorkItemResponse(item_data))]
        /\ UNCHANGED frontVars

\* WorkItemUpdate: the fields of the request, None where the request has none
WorkItemUpdates ==
    {EmptyDict,
     [status |-> "Done"],
     [storyPoints |-> 8, title |-> ""],
     [storyPoints |-> 0, type |-> "Task", status |-> "In Progress"]}

\* update_data of update_work_item, lines 92-104, and of patch_work_item,
\* lines 199-211: a string is taken when it is not empty, storyPoints when
\* they are not None
work_item_update_data(item_update) ==
    LET text(key) == IF TruthyString(Get(item_update, key, NoneId))
                     THEN [k \in {key} |-> item_update[key]] ELSE EmptyDict
        points == IF "storyPoints" \in DOMAIN item_update
                  THEN [storyPoints |-> item_update.storyPoints] ELSE EmptyDict
    IN  text("type") @@ text("status") @@ text("title") @@ text("priority") @@ points

UpdateWorkItemRequests ==
    {[item_id |-> "W1", item_update |-> iu] : iu \in WorkItemUpdates}
    \cup {[item_id |-> wid, item_update |-> [status |-> "Done"]] : wid \in WorkItemIds}

UpdateWorkItemCalls ==
    {new_call("update_work_item", request, EmptyDict) : request \in UpdateWorkItemRequests}

PatchWorkItemCalls ==
    {new_call("patch_work_item", request, EmptyDict) : request \in UpdateWorkItemRequests}

\* what update_work_item and patch_work_item do with the request: the answer
\* is built from the item after it is updated
work_item_updated(database, call) ==
    LET updated == find_one_and_update(database.work_items, call.item_id,
                                       work_item_update_data(call.item_update))
    IN  IF ~ObjectId_is_valid(call.item_id)
          THEN [db |-> database, response |-> HttpError(400, "Invalid item ID")]
        ELSE IF updated.result = << >>
          THEN [db |-> database, response |-> HttpError(404, "Work item not found")]
        ELSE [db |-> [database EXCEPT !.work_items = updated.docs],
              response |-> WorkItemResponse(updated.result[1])]

\* update_work_item, lines 86-126
UpdateWorkItem(c) ==
    LET call == calls[c]
        done == work_item_updated(db, call)
    IN  /\ call.op = "update_work_item"
        /\ call.pc = "called"
        /\ db' = done.db
        /\ calls' = [calls EXCEPT ![c] = finish(call, done.response)]
        /\ UNCHANGED frontVars

\* patch_work_item, lines 192-233
PatchWorkItem(c) ==
    LET call == calls[c]
        done == work_item_updated(db, call)
    IN  /\ call.op = "patch_work_item"
        /\ call.pc = "called"
        /\ db' = done.db
        /\ calls' = [calls EXCEPT ![c] = finish(call, done.response)]
        /\ UNCHANGED frontVars

DeleteWorkItemCalls ==
    {new_call("delete_work_item", [item_id |-> wid], EmptyDict) : wid \in WorkItemIds}

\* delete_work_item, lines 139-153
DeleteWorkItem(c) ==
    LET call == calls[c]
    IN  /\ call.op = "delete_work_item"
        /\ call.pc = "called"
        /\ IF ~ObjectId_is_valid(call.item_id)
           THEN /\ calls' = [calls EXCEPT ![c] =
                       finish(call, HttpError(400, "Invalid item ID"))]
                /\ db' = db
           ELSE /\ db' = [db EXCEPT !.work_items = delete_one(@, call.item_id)]
                /\ calls' = [calls EXCEPT ![c] =
                       IF find_one(db.work_items, call.item_id) = << >>
                       THEN finish(call, HttpError(404, "Work item not found"))
                       ELSE finish(call, [ok |-> TRUE])]
        /\ UNCHANGED frontVars

AddItemsRequests ==
    {[sprint_id |-> "S1", body |-> body] :
        body \in {[itemIds |-> <<"W3">>], [itemIds |-> <<"W1", "W3", "W9">>], EmptyDict,
                  [itemIds |-> <<"W3", InvalidObjectId>>]}}
    \cup {[sprint_id |-> sid, body |-> [itemIds |-> <<"W3">>]] : sid \in CompleteSprintIds}

AddItemsCalls ==
    {new_call("add_items_to_sprint", request, EmptyDict) : request \in AddItemsRequests}

\* add_items_to_sprint, lines 246-259: ObjectId(id) raises for an id that is
\* none; the sprint is not looked up and its metrics are not touched
AddItemsToSprint(c) ==
    LET call == calls[c]
        item_ids == Get(call.body, "itemIds", << >>)
        named(item) == \E i \in DOMAIN item_ids : item_ids[i] = item._id
    IN  /\ call.op = "add_items_to_sprint"
        /\ call.pc = "called"
        /\ IF ~ObjectId_is_valid(call.sprint_id)
           THEN /\ calls' = [calls EXCEPT ![c] =
                       finish(call, HttpError(400, "Invalid sprint ID"))]
                /\ db' = db
           ELSE IF \E i \in DOMAIN item_ids : ~ObjectId_is_valid(item_ids[i])
           THEN /\ calls' = [calls EXCEPT ![c] =
                       finish(call, InternalError(Raised("InvalidId")))]
                /\ db' = db
           ELSE /\ db' = [db EXCEPT !.work_items =
                             update_many(@, named,
                                         LAMBDA item : Put(item, "sprint", call.sprint_id))]
                /\ calls' = [calls EXCEPT ![c] =
                       finish(call,
                              [ok |-> TRUE,
                               modifiedCount |->
                                   Len(SelectSeq(db.work_items, named))])]
        /\ UNCHANGED frontVars

MoveItemBodies ==
    {[workItemId |-> "W1", toCol |-> "Done"],
     [workItemId |-> "W3", toCol |-> "Shipped"],
     [workItemId |-> "W9", toCol |-> "Done"],
     [workItemId |-> InvalidObjectId, toCol |-> "Done"],
     [workItemId |-> "W1", toCol |-> ""],
     [toCol |-> "Done"]}

MoveItemCalls == {new_call("move_item", [body |-> body], EmptyDict) : body \in MoveItemBodies}

\* move_item of routes/board.py, lines 62-92: the status becomes the column
\* named, whatever the item's type allows; the answer is built from the item
\* after it is moved
MoveItem(c) ==
    LET call == calls[c]
        work_item_id == Get(call.body, "workItemId", NoneId)
        to_col == Get(call.body, "toCol", NoneId)
        updated == find_one_and_update(db.work_items, work_item_id, [status |-> to_col])
    IN  /\ call.op = "move_item"
        /\ call.pc = "called"
        /\ IF ~TruthyString(work_item_id) \/ ~TruthyString(to_col)
           THEN /\ calls' = [calls EXCEPT ![c] =
                       finish(call, HttpError(400, "workItemId and toCol are required"))]
                /\ db' = db
           ELSE IF ~ObjectId_is_valid(work_item_id)
           THEN /\ calls' = [calls EXCEPT ![c] =
                       finish(call, HttpError(400, "Invalid item ID"))]
                /\ db' = db
           ELSE /\ db' = [db EXCEPT !.work_items = updated.docs]
                /\ calls' = [calls EXCEPT ![c] =
                       IF updated.result = << >>
                       THEN finish(call, HttpError(404, "Item not found"))
                       ELSE IF "status_code" \in DOMAIN WorkItemResponse(updated.result[1])
                       THEN finish(call, WorkItemResponse(updated.result[1]))
                       ELSE finish(call, [ok |-> TRUE,
                                          item |-> WorkItemResponse(updated.result[1]).document])]
        /\ UNCHANGED frontVars

\* ---- the space routes (routes/spaces.py) ----

\* current_user["id"] of the requests: the owner of P1 and somebody else
UserIds == {"U1", "U2"}

CreateSpaceCalls ==
    {new_call("create_space", [space |-> [name |-> "Lab"], current_user |-> user], EmptyDict) :
        user \in UserIds}

\* create_space, lines 19-42
CreateSpace(c) ==
    LET call == calls[c]
        space_data == [_id |-> InsertedId.spaces[c], name |-> call.space.name,
                       owner |-> call.current_user, collaborators |-> << >>]
    IN  /\ call.op = "create_space"
        /\ call.pc = "called"
        /\ db' = [db EXCEPT !.spaces = Append(@, space_data)]
        /\ calls' = [calls EXCEPT ![c] = finish(call, space_data)]
        /\ UNCHANGED frontVars

\* the id check, `await db.spaces.find_one(...)` and the checks of the space
\* found (it exists and the user owns it), which update_space,
\* add_collaborators and delete_space share word for word
find_own_space(call, spaces, next_pc) ==
    LET space == find_one(spaces, call.space_id)
    IN  IF ~ObjectId_is_valid(call.space_id)
          THEN finish(call, HttpError(400, "Invalid space ID"))
        ELSE IF space = << >> THEN finish(call, HttpError(404, "Space not found"))
        ELSE IF space[1].owner # call.current_user
          THEN finish(call, HttpError(403, "Forbidden"))
        ELSE [call EXCEPT !.pc = next_pc]

SpaceRequests ==
    {[space_id |-> "P1", current_user |-> user] : user \in UserIds}
    \cup {[space_id |-> space_id, current_user |-> "U1"] : space_id \in SpaceIds}

UpdateSpaceCalls ==
    {new_call("update_space", request, [space_update |-> su]) :
        request \in SpaceRequests,
        su \in {[name |-> "Renamed"], [name |-> "", collaborators |-> <<"U2">>]}}

\* update_data of update_space, lines 137-141
space_update_data(space_update) ==
    (IF TruthyString(Get(space_update, "name", NoneId))
     THEN [name |-> space_update.name] ELSE EmptyDict)
    @@ (IF "collaborators" \in DOMAIN space_update
        THEN [collaborators |-> space_update.collaborators] ELSE EmptyDict)

\* update_space, lines 117-135
UpdateSpaceFind(c) ==
    LET call == calls[c]
    IN  /\ call.op = "update_space"
        /\ call.pc = "called"
        /\ calls' = [calls EXCEPT ![c] = find_own_space(call, db.spaces, "update")]
        /\ UNCHANGED <<frontVars, db>>

\* update_space, lines 147-161: the space may be gone by the update, and
\* reading the None that came back raises TypeError; the answer is a dict of
\* the space found, its ids turned into str
UpdateSpaceUpdate(c) ==
    LET call == calls[c]
        updated == find_one_and_update(db.spaces, call.space_id,
                                       space_update_data(call.space_update))
    IN  /\ call.op = "update_space"
        /\ call.pc = "update"
        /\ db' = [db EXCEPT !.spaces = updated.docs]
        /\ calls' = [calls EXCEPT ![c] =
               IF updated.result = << >> THEN finish(call, InternalError(Raised("TypeError")))
               ELSE finish(call, updated.result[1])]
        /\ UNCHANGED frontVars

\* SpaceResponse(**document) of services/models.py: id (alias "_id") and owner
\* are Optional[str], and a space of the database holds an ObjectId there
SpaceResponse(document) ==
    IF \E key \in {"_id", "owner"} : key \in DOMAIN document /\ document[key] # NoneId
    THEN InternalError(Raised("ValidationError"))
    ELSE document

AddCollaboratorsCalls ==
    {new_call("add_collaborators", request, [body |-> body]) :
        request \in SpaceRequests,
        body \in {[collaborators |-> <<"U2">>], EmptyDict}}

\* add_collaborators, lines 225-243
AddCollaboratorsFind(c) ==
    LET call == calls[c]
    IN  /\ call.op = "add_collaborators"
        /\ call.pc = "called"
        /\ calls' = [calls EXCEPT ![c] = find_own_space(call, db.spaces, "update")]
        /\ UNCHANGED <<frontVars, db>>

\* add_collaborators, lines 245-253: the space may be gone by the update, and
\* SpaceResponse(**None) raises TypeError
AddCollaboratorsUpdate(c) ==
    LET call == calls[c]
        updated == find_one_and_update(
                       db.spaces, call.space_id,
                       [collaborators |-> Get(call.body, "collaborators", << >>)])
    IN  /\ call.op = "add_collaborators"
        /\ call.pc = "update"
        /\ db' = [db EXCEPT !.spaces = updated.docs]
        /\ calls' = [calls EXCEPT ![c] =
               IF updated.result = << >> THEN finish(call, InternalError(Raised("TypeError")))
               ELSE finish(call, SpaceResponse(updated.result[1]))]
        /\ UNCHANGED frontVars

DeleteSpaceCalls == {new_call("delete_space", request, EmptyDict) : request \in SpaceRequests}

\* delete_space, lines 174-192
DeleteSpaceFind(c) ==
    LET call == calls[c]
    IN  /\ call.op = "delete_space"
        /\ call.pc = "called"
        /\ calls' = [calls EXCEPT ![c] = find_own_space(call, db.spaces, "delete_sprints")]
        /\ UNCHANGED <<frontVars, db>>

\* delete_space, line 195: `await db.sprints.delete_many({"space": ...})`
DeleteSpaceSprints(c) ==
    LET call == calls[c]
    IN  /\ call.op = "delete_space"
        /\ call.pc = "delete_sprints"
        /\ db' = [db EXCEPT !.sprints =
                      delete_many(@, LAMBDA s : Get(s, "space", NoneId) = call.space_id)]
        /\ calls' = [calls EXCEPT ![c] = [call EXCEPT !.pc = "delete_work_items"]]
        /\ UNCHANGED frontVars

\* delete_space, line 198: `await db.work_items.delete_many({"space": ...})`
DeleteSpaceWorkItems(c) ==
    LET call == calls[c]
    IN  /\ call.op = "delete_space"
        /\ call.pc = "delete_work_items"
        /\ db' = [db EXCEPT !.work_items =
                      delete_many(@, LAMBDA item : Get(item, "space", NoneId) = call.space_id)]
        /\ calls' = [calls EXCEPT ![c] = [call EXCEPT !.pc = "delete_changes"]]
        /\ UNCHANGED frontVars

\* delete_space, line 201: `await db.change_events.delete_many(...)`, on a
\* collection the model does not keep
DeleteSpaceChanges(c) ==
    LET call == calls[c]
    IN  /\ call.op = "delete_space"
        /\ call.pc = "delete_changes"
        /\ calls' = [calls EXCEPT ![c] = [call EXCEPT !.pc = "delete_space"]]
        /\ UNCHANGED <<frontVars, db>>

\* delete_space, lines 204-212: `await db.spaces.delete_one(...)`
DeleteSpaceDelete(c) ==
    LET call == calls[c]
    IN  /\ call.op = "delete_space"
        /\ call.pc = "delete_space"
        /\ db' = [db EXCEPT !.spaces = delete_one(@, call.space_id)]
        /\ calls' = [calls EXCEPT ![c] =
               IF find_one(db.spaces, call.space_id) = << >>
               THEN finish(call, HttpError(404, "Space not found"))
               ELSE finish(call, [ok |-> TRUE])]
        /\ UNCHANGED frontVars

\* ---- the requests in flight ----

BackendDatabase ==
    [spaces |->
    <<[_id |-> "P1", name |-> "Research", owner |-> "U1", collaborators |-> << >>]>>,
     sprints |->
    <<[_id |-> "S1", space |-> "P1", name |-> "Sprint 1", status |-> "active", order |-> 1,
       metrics |-> Put(NewSprintMetrics, "committedSP", 5)],
      [_id |-> "S2", space |-> "P1", name |-> "Sprint 2", status |-> "planned", order |-> 2,
       metrics |-> NewSprintMetrics]>>,
     work_items |->
    <<[_id |-> "W1", space |-> "P1", title |-> "w1", storyPoints |-> 2,
       priority |-> "Medium", type |-> "Task", status |-> "In Progress", sprint |-> "S1"],
      [_id |-> "W2", space |-> "P1", title |-> "w2", storyPoints |-> 3,
       priority |-> "High", type |-> "Story", status |-> "Done", sprint |-> "S1"],
      [_id |-> "W3", space |-> "P1", title |-> "w3", storyPoints |-> 5,
       priority |-> "Medium", type |-> "Story", status |-> "To Do"]>>]

BackendCalls ==
    ApplyCalls \cup HandlerCalls \cup ServiceCalls \cup CreateSprintCalls
    \cup DeleteSprintCalls \cup UpdateSprintCalls \cup StartSprintCalls
    \cup CreateWorkItemCalls \cup UpdateWorkItemCalls \cup PatchWorkItemCalls
    \cup DeleteWorkItemCalls \cup AddItemsCalls \cup MoveItemCalls \cup CreateSpaceCalls
    \cup UpdateSpaceCalls \cup AddCollaboratorsCalls \cup DeleteSpaceCalls

InitBackend ==
    /\ NoEngines
    /\ NoCallers
    /\ db = BackendDatabase
    /\ calls \in [CallIds -> BackendCalls]

NextBackend ==
    \E c \in CallIds :
        \/ ApplyFindSprint(c)
        \/ ApplyInsertItem(c)
        \/ ApplyFindItems(c)
        \/ ApplyUpdateSprint(c)
        \/ HandlerFindSprint(c)
        \/ HandlerFindItems(c)
        \/ HandlerUpdateSprint(c)
        \/ HandlerUpdateItems(c)
        \/ ServiceFindSprint(c)
        \/ ServiceFindItems(c)
        \/ ServiceFindNext(c)
        \/ ServiceInsertNext(c)
        \/ ServiceFindInserted(c)
        \/ ServiceMoveItem(c)
        \/ ServiceUpdateSprint(c)
        \/ ServiceUpdateNext(c)
        \/ CreateSprintFindLast(c)
        \/ CreateSprintInsert(c)
        \/ DeleteSprintUnassign(c)
        \/ DeleteSprintDelete(c)
        \/ UpdateSprint(c)
        \/ StartSprint(c)
        \/ CreateWorkItem(c)
        \/ UpdateWorkItem(c)
        \/ PatchWorkItem(c)
        \/ DeleteWorkItem(c)
        \/ AddItemsToSprint(c)
        \/ MoveItem(c)
        \/ CreateSpace(c)
        \/ UpdateSpaceFind(c)
        \/ UpdateSpaceUpdate(c)
        \/ AddCollaboratorsFind(c)
        \/ AddCollaboratorsUpdate(c)
        \/ DeleteSpaceFind(c)
        \/ DeleteSpaceSprints(c)
        \/ DeleteSpaceWorkItems(c)
        \/ DeleteSpaceChanges(c)
        \/ DeleteSpaceDelete(c)

SpecBackend == InitBackend /\ [][NextBackend]_vars

-----------------------------------------------------------------------------
(* Properties of the backlog and planning engines, checked under Spec *)

IsPlan == ret.op = "plan_sprint"
IsScores == ret.op = "calculate_all_scores"
IsRanked == ret.op = "get_sorted_backlog"

Range(seq) == {seq[i] : i \in 1..Len(seq)}

\* a backlog ticket the planning pass could have taken: not excluded, and none
\* of its dependencies is a ticket of the graph that is not done
Plannable(tid) ==
    /\ tickets[tid].status = "backlog"
    /\ tid \notin ret.args.exclude_tickets
    /\ \A i \in 1..Len(tickets[tid].dependencies) :
           LET dep == tickets[tid].dependencies[i]
           IN  dep \in DOMAIN tickets => tickets[dep].status = "done"

\* C1 as stated: for every capacity value the plan's total_points is at most
\* the capacity.
C1_TotalWithinAnyCapacity ==
    IsPlan => ret.value.total_points <= ret.args.capacity

\* C1 amended: for every capacity >= 0, every backlog and every exclude list,
\* the plan's total_points is at most the capacity (and total_points is the sum
\* of the story points of the selected tickets).
C1_TotalWithinCapacity ==
    (IsPlan /\ ret.args.capacity >= 0) =>
        /\ ret.value.total_points <= ret.args.capacity
        /\ ret.value.total_points =
               sum_story_points([i \in 1..Len(ret.value.selected_tickets) |->
                                    tickets[ret.value.selected_tickets[i]]])

\* C1 witness: a plan that selected a ticket, filled the capacity exactly and
\* passed over another plannable ticket because it no longer fit.
C1_Witness ==
    /\ IsPlan
    /\ ret.args.capacity > 0
    /\ ret.value.total_points = ret.args.capacity
    /\ \E tid \in DOMAIN tickets :
           Plannable(tid) /\ tid \notin Range(ret.value.selected_tickets)

\* C2 as stated: every dependency of every selected ticket is a ticket of the
\* graph whose status is done.
C2_SelectedDependenciesDone ==
    IsPlan =>
        \A tid \in Range(ret.value.selected_tickets) :
            \A i \in 1..Len(tickets[tid].dependencies) :
                LET dep == tickets[tid].dependencies[i]
                IN  dep \in DOMAIN tickets /\ tickets[dep].status = "done"

\* C7 as stated: the ranking holds exactly the tickets that pass the filter, in
\* descending score order, and of two tickets of equal score the one with fewer
\* story points comes first.
C7_RankedByScoreThenPoints ==
    IsRanked =>
        LET ranked == ret.value
        IN  /\ {ranked[i][1] : i \in 1..Len(ranked)} =
                   {tid \in DOMAIN tickets :
                       passes_filter(tickets, tid, ret.args.status_filter)}
            /\ \A i, j \in 1..Len(ranked) :
                   i < j =>
                       \/ float_lt(ranked[j][2], ranked[i][2])
                       \/ /\ ranked[i][2] = ranked[j][2]
                          /\ tickets[ranked[i][1]].story_points
                                 <= tickets[ranked[j][1]].story_points

\* every order in which the tickets of the graph can have been inserted
InsertionOrders ==
    {ord \in [1..Len(order) -> Range(order)] : Range(ord) = Range(order)}

\* C8 as stated: for the same tickets, capacity and exclude list, score_all and
\* plan return the same result whatever the order the tickets were inserted in.
C8_ResultIndependentOfInsertionOrder ==
    /\ IsScores => ret.value = calculate_all_scores(tickets)
    /\ IsPlan =>
           \A ord \in InsertionOrders :
               plan_sprint(tickets, ord, ret.args.capacity, ret.args.exclude_tickets)
                   = ret.value

\* dependency lists one longer than the graph's, to count more than one unmet
\* dependency
WiderDependencyLists == SeqsUpTo(TicketIds \cup {UnknownId}, MaxDeps + 1)

NotDoneEntries(deps) ==
    {i \in 1..Len(deps) : deps[i] \in DOMAIN tickets /\ tickets[deps[i]].status # "done"}

\* 0.5 * business_value + 0.3 * urgency - 0.2 * risk_penalty, in the doubles
\* of the source
WeightedSum(business_value, urgency, risk_penalty) ==
    float_sub(float_add(float_mul(Literal(UNIT \div 2), Float(business_value)),
                        float_mul(Literal((3 * UNIT) \div 10), Float(urgency))),
              float_mul(Literal(UNIT \div 5), Float(risk_penalty)))

\* C9: before flooring, a ticket's score is its base score less 30 points for
\* every dependency entry that is a ticket not done; with exactly one such
\* dependency it is 30 points below the score the same ticket has once that
\* dependency is done.  Sums and differences are those of the source's
\* doubles.
C9_DependencyPenalty ==
    IsScores => \A tid \in DOMAIN tickets : \A deps \in WiderDependencyLists :
        LET t == [tickets[tid] EXCEPT !.dependencies = deps]
            unmet == NotDoneEntries(deps)
        IN  /\ final_score(t, tickets)
                   = float_sub(WeightedSum(t.business_value, t.urgency, t.risk_penalty),
                               Float(30 * Cardinality(unmet)))
            /\ Cardinality(unmet) = 1 =>
                   LET dep == deps[CHOOSE i \in unmet : TRUE]
                       satisfied == [tickets EXCEPT ![dep].status = "done"]
                   IN  final_score(t, tickets)
                           = float_sub(final_score(t, satisfied), Float(30))
            /\ deps = tickets[tid].dependencies =>
                   ret.value[tid] = float_max(Zero, final_score(t, tickets))

\* C9 witness: scores were computed for a graph in which a ticket has exactly
\* one dependency that is not done and still scores above the floor.
C9_Witness ==
    /\ IsScores
    /\ \E tid \in DOMAIN tickets :
           /\ Cardinality(NotDoneEntries(tickets[tid].dependencies)) = 1
           /\ float_lt(Zero, ret.value[tid])
           /\ ret.value[tid] = float_sub(base_score(tickets[tid]), Float(30))

AttributeValues == {0, 3, 9, 58, 100}

\* C10: with the dependencies and every other attribute fixed, a larger
\* business_value or urgency never gives a smaller selection score and a larger
\* risk_penalty never gives a larger one.
C10_ScoreMonotone ==
    IsScores => \A tid \in DOMAIN tickets : \A lo, hi \in AttributeValues :
        lo <= hi =>
            LET t == tickets[tid]
                score(x) == calculate_selection_score(x, tickets)
            IN  /\ (lo <= t.business_value /\ t.business_value <= hi) =>
                       /\ float_le(score([t EXCEPT !.business_value = lo]),
                                   ret.value[tid])
                       /\ float_le(ret.value[tid],
                                   score([t EXCEPT !.business_value = hi]))
                /\ float_le(score([t EXCEPT !.business_value = lo]),
                            score([t EXCEPT !.business_value = hi]))
                /\ float_le(score([t EXCEPT !.urgency = lo]),
                            score([t EXCEPT !.urgency = hi]))
                /\ float_le(score([t EXCEPT !.risk_penalty = hi]),
                            score([t EXCEPT !.risk_penalty = lo]))

\* C10 witness: scores were computed for a graph with one ticket above the
\* floor and one ticket held at the floor by an unmet dependency.
C10_Witness ==
    /\ IsScores
    /\ \E tid \in DOMAIN tickets : float_lt(Zero, ret.value[tid])
    /\ \E tid \in DOMAIN tickets :
           ret.value[tid] = Zero /\ float_lt(final_score(tickets[tid], tickets), Zero)

\* the ends of the scale 0..100 and a value between them
ExtremeValues == {0, 58, 100}

\* C11: every score returned by calculate_all_scores and every score of the
\* ranking returned by get_sorted_backlog is at least 0; and so is the score of
\* every ticket of the graph when its business_value, urgency and risk_penalty
\* range over 0..100 and its dependency list over lists with up to two unmet
\* dependencies.
C11_ScoresNeverNegative ==
    /\ IsScores => \A tid \in DOMAIN ret.value : float_le(Zero, ret.value[tid])
    /\ IsRanked => \A i \in 1..Len(ret.value) : float_le(Zero, ret.value[i][2])
    /\ IsScores => \A tid \in DOMAIN tickets :
           \A bv, urg, risk \in ExtremeValues : \A deps \in WiderDependencyLists :
               float_le(Zero, calculate_selection_score(
                   [tickets[tid] EXCEPT !.business_value = bv, !.urgency = urg,
                                        !.risk_penalty = risk, !.dependencies = deps],
                   tickets))

\* C11 witness: a ranking was returned in which a ticket whose score before
\* the floor is negative stands with score 0.
C11_Witness ==
    /\ IsRanked
    /\ \E i \in 1..Len(ret.value) :
           /\ float_lt(final_score(tickets[ret.value[i][1]], tickets), Zero)
           /\ ret.value[i][2] = Zero

\* C12: no ticket of the exclude list is among the plan's selected tickets or
\* its unmet dependencies; and planning again, for any capacity, with the
\* selected tickets added to the exclude list selects none of them again.
C12_ExcludedNeverPlanned ==
    IsPlan =>
        LET exclude == ret.args.exclude_tickets
            selected == Range(ret.value.selected_tickets)
        IN  /\ selected \cap exclude = {}
            /\ Range(ret.value.unmet_dependencies) \cap exclude = {}
            /\ \A c \in Capacities :
                   LET again == plan_sprint(tickets, order, c, exclude \cup selected)
                   IN  /\ Range(again.selected_tickets) \cap selected = {}
                       /\ Range(again.unmet_dependencies) \cap selected = {}

\* C12 witness: a plan with one ticket selected and one excluded, where the
\* excluded ticket is in the backlog, has its dependencies met and would have
\* fitted the capacity left over.
C12_Witness ==
    /\ IsPlan
    /\ ret.value.selected_tickets # << >>
    /\ \E tid \in ret.args.exclude_tickets \cap DOMAIN tickets :
           /\ tickets[tid].status = "backlog"
           /\ dependencies_met(tickets[tid], tickets)
           /\ tickets[tid].story_points <= ret.value.remaining_capacity

\* tickets with a dependency id that is no key of the graph
UnknownDependencyTickets(graph) ==
    {tid \in DOMAIN graph :
        \E i \in 1..Len(graph[tid].dependencies) :
            graph[tid].dependencies[i] \notin DOMAIN graph}

NegativeStoryPoints == 0 - 1

\* C14: a ticket whose dependency id is no ticket of the graph is never given
\* a score, never ranked and never selected by a plan; and the same holds for
\* any backlog ticket of the graph once its story points are negative.
C14_MalformedTicketsRejected ==
    /\ IsScores => DOMAIN ret.value \cap UnknownDependencyTickets(tickets) = {}
    /\ IsRanked => \A i \in 1..Len(ret.value) :
                       ret.value[i][1] \notin UnknownDependencyTickets(tickets)
    /\ IsPlan => /\ Range(ret.value.selected_tickets)
                        \cap UnknownDependencyTickets(tickets) = {}
                 /\ \A tid \in DOMAIN tickets :
                        LET graph == [tickets EXCEPT
                                         ![tid].story_points = NegativeStoryPoints]
                            plan == plan_sprint(graph, order, ret.args.capacity,
                                                ret.args.exclude_tickets)
                        IN  /\ tid \notin DOMAIN calculate_all_scores(graph)
                            /\ tid \notin Range(plan.selected_tickets)

\* the tickets of the graph a ticket depends on
KnownDependencies(tid) ==
    Range(tickets[tid].dependencies) \cap DOMAIN tickets

\* the tickets reached from tid along at most n dependency edges
RECURSIVE DependsOnWithin(_, _)
DependsOnWithin(tid, n) ==
    IF n = 0 THEN {}
    ELSE KnownDependencies(tid)
         \cup UNION {DependsOnWithin(dep, n - 1) : dep \in KnownDependencies(tid)}

HasDependencyCycle ==
    \E tid \in DOMAIN tickets : tid \in DependsOnWithin(tid, Cardinality(DOMAIN tickets))

\* C15: neither calculate_all_scores nor get_sorted_backlog returns a result
\* for a graph whose dependency edges contain a cycle, a ticket that depends
\* on itself included.
C15_CyclicGraphNeverScored ==
    HasDependencyCycle => ~(IsScores \/ IsRanked)

\* the ranking the planning pass goes through, as ticket ids
RankedBacklogIds ==
    LET ranked == get_sorted_backlog(tickets, order, "backlog")
    IN  [i \in 1..Len(ranked) |-> ranked[i][1]]

RECURSIVE PointsOf(_)
PointsOf(tids) ==
    IF tids = {} THEN 0
    ELSE LET tid == CHOOSE x \in tids : TRUE
         IN  tickets[tid].story_points + PointsOf(tids \ {tid})

\* the points selected when the pass reaches position i of the ranking
TotalBefore(i) ==
    PointsOf({RankedBacklogIds[j] : j \in 1..(i - 1)}
             \cap Range(ret.value.selected_tickets))

\* C19: every backlog ticket that is not excluded, has its dependencies met
\* and is not selected had more story points than the capacity remaining when
\* the pass reached it, wherever it stands in the ranking; a ticket that
\* fitted at its turn is selected, also after earlier tickets were skipped.
C19_NoEarlyExit ==
    IsPlan => \A i \in 1..Len(RankedBacklogIds) :
        LET tid == RankedBacklogIds[i]
        IN  Plannable(tid) =>
                (tid \notin Range(ret.value.selected_tickets)
                    <=> tickets[tid].story_points > ret.args.capacity - TotalBefore(i))

\* C19 witness: a plan in which a ticket was skipped for capacity and a
\* ticket ranked after it was selected.
C19_Witness ==
    /\ IsPlan
    /\ \E i, j \in 1..Len(RankedBacklogIds) :
           /\ i < j
           /\ Plannable(RankedBacklogIds[i])
           /\ RankedBacklogIds[i] \notin Range(ret.value.selected_tickets)
           /\ RankedBacklogIds[j] \in Range(ret.value.selected_tickets)

\* C20: in a plan for a capacity of at least 0 and a graph without unknown
\* dependencies and without cycles, every backlog ticket that is not excluded
\* and has a dependency not done stands exactly once in unmet_dependencies,
\* whether or not its story points fitted the capacity.
C20_UnmetDependenciesRecorded ==
    (/\ IsPlan
     /\ ret.args.capacity >= 0
     /\ UnknownDependencyTickets(tickets) = {}
     /\ ~HasDependencyCycle) => \A tid \in DOMAIN tickets :
        (/\ tickets[tid].status = "backlog"
         /\ tid \notin ret.args.exclude_tickets
         /\ ~dependencies_met(tickets[tid], tickets))
            => Cardinality({i \in 1..Len(ret.value.unmet_dependencies) :
                               ret.value.unmet_dependencies[i] = tid}) = 1

-----------------------------------------------------------------------------
(* Properties of the interruption decision, checked under SpecInterrupt *)

IsAssessed == ret.op = "assess_sprint_interruption"

ReqNewPoints == Get(new_ticket, "story_points", 0)
ReqCommitted == Get(Get(active_sprint, "metrics", EmptyDict), "committedSP", 30)
ReqRemaining == ReqCommitted - sum_story_points(sprint_items)
ReqDeficit == ReqNewPoints - ReqRemaining
ReqCritical ==
    Get(new_ticket, "priority", "Medium") = "Highest" /\ is_blocker(new_ticket)
ReqStatuses == {Get(sprint_items[i], "status", "To Do") : i \in 1..Len(sprint_items)}

ItemWithId(id) ==
    {i \in 1..Len(sprint_items) : Get(sprint_items[i], "id", NoneId) = id}

\* C3: when the new item's story points are at most the remaining capacity the
\* decision is ACCEPT with no target, whatever the priority, blocker flag,
\* values, item statuses and prediction are.
C3_FitsIsAccepted ==
    (IsAssessed /\ ReqNewPoints <= ReqRemaining) =>
        /\ ret.value.action = "ACCEPT"
        /\ ret.value.target_to_remove = NoneId

\* C3 witness: a flagged critical blocker with a predicted productivity impact
\* that fills the remaining capacity of a sprint with work in progress exactly,
\* and is accepted.
C3_Witness ==
    /\ IsAssessed
    /\ ReqNewPoints = ReqRemaining
    /\ ReqCritical
    /\ "ml_analysis" \in DOMAIN new_ticket
    /\ "In Progress" \in ReqStatuses
    /\ ret.value.action = "ACCEPT"

\* C4 as stated (zero-sum rule): when the decision is SWAP or CRITICAL the item
\* named in target_to_remove has at least as many story points as the deficit.
C4_TargetCoversDeficit ==
    (IsAssessed /\ ret.value.action \in {"SWAP", "CRITICAL"}) =>
        \E i \in ItemWithId(ret.value.target_to_remove) :
            Get(sprint_items[i], "story_points", 0) >= ReqDeficit

\* the candidate of the WIP safety search for the request at hand
ReqCandidate == find_optimal_swap_candidate(sprint_items, ReqCritical, ReqDeficit)

\* C5: for a new item that is not a flagged critical blocker, neither the swap
\* candidate nor target_to_remove is an item whose status is In Progress.
C5_NoInProgressUnlessCritical ==
    (IsAssessed /\ ~ReqCritical) =>
        /\ ReqCandidate.found =>
               Get(ReqCandidate.item, "status", "To Do") # "In Progress"
        /\ \A i \in ItemWithId(ret.value.target_to_remove) :
               Get(sprint_items[i], "status", "To Do") # "In Progress"

\* C5 witness: a sprint with items in To Do, In Review and In Progress, a new
\* item that is not a critical blocker, and a swap decided.
C5_Witness ==
    /\ IsAssessed
    /\ ~ReqCritical
    /\ {"To Do", "In Review", "In Progress"} \subseteq ReqStatuses
    /\ ret.value.action = "SWAP"

\* the value comparison of step 5, recomputed from the request: new value less
\* the candidate's value and twice the switching hours
ReqNet ==
    float_sub(
        calculate_ticket_value(new_ticket),
        float_add(
            calculate_ticket_value(ReqCandidate.item),
            float_mul(
                calculate_context_switching_cost(
                    ReqCandidate.item,
                    Get(active_sprint, "status", NoneId) = "active",
                    Cardinality({i \in 1..Len(sprint_items) :
                                    Get(sprint_items[i], "status", NoneId) = "In Progress"}),
                    productivity_impact_of(Get(new_ticket, "ml_analysis", EmptyDict))),
                Float(2))))

ReqValueGated ==
    /\ IsAssessed
    /\ ReqNewPoints > ReqRemaining
    /\ ReqCandidate.found
    /\ float_le(ReqNet, Zero)

\* C6 as stated: when the new item does not fit and the swap candidate's net
\* value is not positive, the decision is DEFER.
C6_NonPositiveNetDefers ==
    ReqValueGated => ret.value.action = "DEFER"

\* C6 amended: when the new item does not fit and the swap candidate's net value
\* is not positive, the decision is never SWAP or CRITICAL: it is DEFER with no
\* target, except that it is SPLIT when the candidate's story points are below
\* the deficit and the new item has more than 8 story points.
C6_NonPositiveNetNeverSwaps ==
    ReqValueGated =>
        /\ ret.value.target_to_remove = NoneId
        /\ IF Get(ReqCandidate.item, "story_points", 0) < ReqDeficit /\ ReqNewPoints > 8
           THEN ret.value.action = "SPLIT"
           ELSE ret.value.action = "DEFER"

\* C6 witness: the value comparison was made for a candidate that covers the
\* deficit, the net value was not positive and the request was deferred.
C6_Witness ==
    /\ ReqValueGated
    /\ Get(ReqCandidate.item, "story_points", 0) >= ReqDeficit
    /\ ret.value.value_net # NoneValue
    /\ float_le(ret.value.value_net[1], Zero)
    /\ ret.value.action = "DEFER"

\* the rule a constraints_checked entry stands for
RuleOf(entry) ==
    CASE entry \in {"Zero-Sum: Fits without removal", "Zero-Sum: Need to remove SP"}
             -> "capacity"
      [] entry = "WIP-Safety: No viable swap candidates" -> "wip_safety"
      [] entry = "Split-Feasibility: Large item can be split" -> "split"
      [] entry = "Context-Switching-Tax: Net value" -> "value"
      [] entry = "Critical-Path-Detection" -> "critical"
      [] OTHER -> "other"

RuleOrder == <<"capacity", "wip_safety", "split", "value", "critical">>

\* the rules assess_sprint_interruption evaluates for the request before it
\* returns: the capacity test always; the candidate search when the item
\* does not fit; the split test (`new_points > 8`) when the candidate found is
\* below the deficit; the value comparison when the result carries a net
\* value; the critical-blocker test when that net value is positive.
ReqRulesEvaluated ==
    {"capacity"}
    \cup (IF ReqNewPoints > ReqRemaining THEN {"wip_safety"} ELSE {})
    \cup (IF /\ ReqNewPoints > ReqRemaining
             /\ ReqCandidate.found
             /\ ReqCandidate.total_removed_points < ReqDeficit
          THEN {"split"} ELSE {})
    \cup (IF ret.value.value_net # NoneValue THEN {"value"} ELSE {})
    \cup (IF ret.value.value_net # NoneValue /\ float_lt(Zero, ret.value.value_net[1])
          THEN {"critical"} ELSE {})

\* C13: constraints_checked of every result has an entry for every rule that
\* was evaluated before the return, and the entries of the five rules stand in
\* the order of evaluation: capacity, candidate search, split eligibility,
\* value comparison, critical-blocker check.
C13_EveryEvaluatedRuleRecorded ==
    IsAssessed =>
        LET checked == ret.value.constraints_checked
            position(rule) == CHOOSE k \in 1..Len(RuleOrder) : RuleOrder[k] = rule
        IN  /\ \A rule \in ReqRulesEvaluated :
                   \E i \in 1..Len(checked) : RuleOf(checked[i]) = rule
            /\ \A i, j \in 1..Len(checked) :
                   (/\ i < j
                    /\ RuleOf(checked[i]) # "other"
                    /\ RuleOf(checked[j]) # "other")
                       => position(RuleOf(checked[i])) < position(RuleOf(checked[j]))

\* the sprint items of the first status tier that is not empty: To Do, else
\* In Review, else In Progress when the new item is a critical blocker
ReqEligibleItems ==
    IF items_with_status(sprint_items, "To Do") # << >>
      THEN items_with_status(sprint_items, "To Do")
    ELSE IF items_with_status(sprint_items, "In Review") # << >>
      THEN items_with_status(sprint_items, "In Review")
    ELSE IF ReqCritical
      THEN items_with_status(sprint_items, "In Progress")
    ELSE << >>

\* C18: when the new item does not fit and some single eligible sprint item
\* has story points of at least the deficit, the decision is not SPLIT.
C18_NoSplitWhenOneItemCovers ==
    (/\ IsAssessed
     /\ ReqNewPoints > ReqRemaining
     /\ \E i \in 1..Len(ReqEligibleItems) :
            Get(ReqEligibleItems[i], "story_points", 0) >= ReqDeficit)
        => ret.value.action # "SPLIT"
\* the positions of the sprint items of one status
ReqTier(status) ==
    {i \in 1..Len(sprint_items) : Get(sprint_items[i], "status", "To Do") = status}

\* the tier the candidate has to come from: To Do, else In Review, else In
\* Progress for a critical blocker
ReqFirstTier ==
    IF ReqTier("To Do") # {} THEN ReqTier("To Do")
    ELSE IF ReqTier("In Review") # {} THEN ReqTier("In Review")
    ELSE IF ReqCritical THEN ReqTier("In Progress")
    ELSE {}

ReqSmallestOfFirstTier ==
    {i \in ReqFirstTier :
        \A j \in ReqFirstTier : Get(sprint_items[i], "story_points", 0)
                                     <= Get(sprint_items[j], "story_points", 0)}

\* C21: a swap candidate exists exactly when the first tier is not empty, and
\* it is then an item of that tier with the fewest story points; so an In
\* Review item is taken only without To Do items, an In Progress item only
\* without To Do and In Review items and for a critical blocker. The target
\* of a result is such an item too.
C21_CandidateFromFirstTier ==
    IsAssessed =>
        /\ ReqCandidate.found <=> ReqFirstTier # {}
        /\ ReqCandidate.found =>
               /\ \E i \in ReqSmallestOfFirstTier : ReqCandidate.item = sprint_items[i]
               /\ Get(ReqCandidate.item, "status", "To Do") = "In Review"
                      => ReqTier("To Do") = {}
               /\ Get(ReqCandidate.item, "status", "To Do") = "In Progress"
                      => ReqTier("To Do") = {} /\ ReqTier("In Review") = {} /\ ReqCritical
        /\ ret.value.target_to_remove # NoneId =>
               \E i \in ReqSmallestOfFirstTier :
                   Get(sprint_items[i], "id", NoneId) = ret.value.target_to_remove

\* C21 witness: the result names an In Review item of 2 story points although
\* the sprint also has an In Review item of 8 points listed before it and an
\* In Progress item.
C21_Witness ==
    /\ IsAssessed
    /\ ret.value.target_to_remove # NoneId
    /\ ReqTier("In Progress") # {}
    /\ \E i, j \in ReqTier("In Review") :
           /\ i < j
           /\ sprint_items[i].story_points = 8
           /\ sprint_items[j].story_points = 2
           /\ sprint_items[j].id = ret.value.target_to_remove

\* titles and descriptions with and without a blocker term; a term is found
\* in either field and in any case of letters, but not across the two fields
TextSamples ==
    {[title |-> <<"u","i">>, description |-> << >>, flagged |-> FALSE],
     [title |-> <<"P","0">>, description |-> << >>, flagged |-> TRUE],
     [title |-> <<"u","i">>, description |-> <<"D","o","w","n">>, flagged |-> TRUE],
     [title |-> <<"a"," ","d","o","w","n","e","r">>, description |-> <<"x">>,
      flagged |-> TRUE],
     [title |-> <<"p">>, description |-> <<"0">>, flagged |-> FALSE],
     [title |-> <<"d","o","w">>, description |-> <<"n">>, flagged |-> FALSE]}

\* net = new_value - (removed_value + switch_cost_value) for a new item and
\* the item to remove
NetOf(ticket, item) ==
    float_sub(
        calculate_ticket_value(ticket),
        float_add(
            calculate_ticket_value(item),
            float_mul(
                calculate_context_switching_cost(
                    item,
                    Get(active_sprint, "status", NoneId) = "active",
                    Cardinality(ReqTier("In Progress")),
                    productivity_impact_of(Get(ticket, "ml_analysis", EmptyDict))),
                Float(2))))

\* for a new item that is flagged or not: if its candidate covers the deficit
\* and the net value is positive, the result is CRITICAL for a flagged item of
\* priority Highest and SWAP otherwise, with the candidate as target
SwapOrCritical(ticket, flagged, result) ==
    LET critical == Get(ticket, "priority", "Medium") = "Highest" /\ flagged
        candidate == find_optimal_swap_candidate(sprint_items, critical, ReqDeficit)
    IN  /\ (/\ ReqNewPoints > ReqRemaining
            /\ candidate.found
            /\ candidate.total_removed_points >= ReqDeficit
            /\ float_lt(Zero, NetOf(ticket, candidate.item)))
               => /\ result.action = IF critical THEN "CRITICAL" ELSE "SWAP"
                  /\ result.target_to_remove = Get(candidate.item, "id", NoneId)
        /\ result.action = "CRITICAL" => critical

\* C22: with a candidate that covers the deficit and a positive net value the
\* decision is CRITICAL for a flagged critical blocker (priority Highest and a
\* blocker term in title or description) and SWAP otherwise, the target being
\* the candidate's id; CRITICAL is never returned for an item not flagged.
\* Checked for the request and for the same request with other texts.
C22_CriticalOrSwap ==
    IsAssessed =>
        /\ SwapOrCritical(new_ticket, new_ticket.title = <<"P","0">>, ret.value)
        /\ \A sample \in TextSamples :
               LET other == Put(Put(new_ticket, "title", sample.title),
                                "description", sample.description)
               IN  SwapOrCritical(other, sample.flagged,
                       assess_sprint_interruption(other, active_sprint, sprint_items))

\* C22 witness: CRITICAL was returned with a candidate that covers the
\* deficit, for a request that gives SWAP once the blocker term is taken out
\* of its title.
C22_Witness ==
    /\ IsAssessed
    /\ ret.value.action = "CRITICAL"
    /\ ReqCandidate.total_removed_points >= ReqDeficit
    /\ ret.value.target_to_remove = ReqCandidate.item.id
    /\ assess_sprint_interruption(Put(new_ticket, "title", <<"u","i">>),
                                  active_sprint, sprint_items).action = "SWAP"

LargeStoryPoints == {9, 13, 20}
LargeDeficits == {1, 15}

\* a result that defers for want of a candidate: DEFER, no target, and the
\* WIP-safety entry after the deficit entry
DeferredWithoutCandidate(result) ==
    /\ result.action = "DEFER"
    /\ result.target_to_remove = NoneId
    /\ \E i, j \in 1..Len(result.constraints_checked) :
           /\ i < j
           /\ result.constraints_checked[i] = "Zero-Sum: Need to remove SP"
           /\ result.constraints_checked[j] = "WIP-Safety: No viable swap candidates"

\* C23: when the new item does not fit, the sprint has no To Do and no In
\* Review item and the new item is no critical blocker, the result is DEFER
\* with no target and the WIP-safety entry after the deficit entry; and so it
\* is for the same sprint items and a new item of 9, 13 or 20 story points
\* with a deficit of 1 or 15 (20 points with deficit 15 among them).
C23_NoCandidateDefers ==
    (/\ IsAssessed
     /\ ReqTier("To Do") = {}
     /\ ReqTier("In Review") = {}
     /\ ~ReqCritical)
        => /\ ReqNewPoints > ReqRemaining => DeferredWithoutCandidate(ret.value)
           /\ \A points \in LargeStoryPoints, deficit \in LargeDeficits :
                  LET large == Put(new_ticket, "story_points", points)
                      committed == sum_story_points(sprint_items) + points - deficit
                      sprint == Put(active_sprint, "metrics",
                                    [committedSP |-> committed])
                  IN  DeferredWithoutCandidate(
                          assess_sprint_interruption(large, sprint, sprint_items))

\* C23 witness: a new item of more than 8 story points that is no critical
\* blocker was deferred for a sprint whose open items are all In Progress.
C23_Witness ==
    /\ IsAssessed
    /\ ReqNewPoints > 8
    /\ ReqNewPoints > ReqRemaining
    /\ ~ReqCritical
    /\ ReqTier("To Do") = {}
    /\ ReqTier("In Review") = {}
    /\ ReqTier("In Progress") # {}
    /\ DeferredWithoutCandidate(ret.value)

\* the value comparison of step 5 is reached: the new item does not fit, there
\* is a swap candidate, and neither the split nor the multiple-items branch of
\* step 4 returned first
ReqValueCompared ==
    /\ ReqNewPoints > ReqRemaining
    /\ ReqCandidate.found
    /\ ~(/\ Get(ReqCandidate.item, "story_points", 0) < ReqDeficit
         /\ \/ ReqNewPoints > 8
            \/ find_multiple_swap_candidates(sprint_items, ReqCritical, ReqDeficit).found)

Actions == {"ACCEPT", "DEFER", "SPLIT", "SWAP", "CRITICAL"}

SwappableStatuses == {"To Do", "In Review", "In Progress"}

\* C26: the action is one of ACCEPT, SWAP, DEFER, SPLIT, CRITICAL;
\* target_to_remove is set exactly when the action is SWAP or CRITICAL and is
\* then the id of a supplied sprint item whose status is To Do, In Review or
\* In Progress, never Done; new_item_value, removed_item_value, switch_cost and
\* value_net are set exactly when the value comparison was performed.
C26_ResultWellFormed ==
    IsAssessed =>
        /\ ret.value.action \in Actions
        /\ (ret.value.target_to_remove # NoneId)
               <=> (ret.value.action \in {"SWAP", "CRITICAL"})
        /\ (ret.value.target_to_remove # NoneId) =>
               /\ ItemWithId(ret.value.target_to_remove) # {}
               /\ \A i \in ItemWithId(ret.value.target_to_remove) :
                      /\ Get(sprint_items[i], "status", "To Do") \in SwappableStatuses
                      /\ Get(sprint_items[i], "status", "To Do") # "Done"
        /\ (ret.value.new_item_value # NoneValue) <=> ReqValueCompared
        /\ (ret.value.removed_item_value # NoneValue) <=> ReqValueCompared
        /\ (ret.value.switch_cost # NoneValue) <=> ReqValueCompared
        /\ (ret.value.value_net # NoneValue) <=> ReqValueCompared

\* C26 witness: the value comparison was performed for a sprint that also holds
\* a Done item, and it ended in a deferral that names no target but carries
\* the four numeric fields.
C26_Witness ==
    /\ IsAssessed
    /\ ReqValueCompared
    /\ "Done" \in ReqStatuses
    /\ ret.value.action = "DEFER"
    /\ ret.value.target_to_remove = NoneId
    /\ ret.value.value_net # NoneValue

\* the statuses of the items that carry the returned target's id
TargetStatuses ==
    {Get(sprint_items[i], "status", "To Do") : i \in ItemWithId(ret.value.target_to_remove)}

\* C27: whenever target_to_remove is an item whose status is In Progress the
\* action is CRITICAL; a SWAP never names an In Progress item.
C27_InProgressTargetOnlyCritical ==
    IsAssessed =>
        /\ ("In Progress" \in TargetStatuses) => ret.value.action = "CRITICAL"
        /\ (ret.value.action = "SWAP") => "In Progress" \notin TargetStatuses

\* C27 witness: a critical blocker displaced an In Progress item.
C27_Witness ==
    /\ IsAssessed
    /\ ret.value.action = "CRITICAL"
    /\ TargetStatuses = {"In Progress"}

\* the story points of the To Do and In Review items together
ReqDeferrablePoints ==
    sum_story_points(
        SelectSeq(sprint_items,
                  LAMBDA item : Get(item, "status", "To Do") \in {"To Do", "In Review"}))

ReqNeedsSeveralItems ==
    /\ IsAssessed
    /\ ReqNewPoints > ReqRemaining
    /\ ReqCandidate.found
    /\ Get(ReqCandidate.item, "story_points", 0) < ReqDeficit
    /\ ReqNewPoints <= 8
    /\ ReqDeferrablePoints >= ReqDeficit

\* C28: when the single candidate's story points are below the deficit, the new
\* item has at most 8 story points and the To Do and In Review items together
\* can cover the deficit, the result is DEFER with no target and
\* constraints_checked records the multiple-items entry.
C28_SeveralItemsNeededDefers ==
    ReqNeedsSeveralItems =>
        /\ ret.value.action = "DEFER"
        /\ ret.value.target_to_remove = NoneId
        /\ "Zero-Sum: Multiple items for swap" \in Range(ret.value.constraints_checked)

\* C28 witness: the deficit is covered only by To Do and In Review items taken
\* together, neither group being enough alone, and the request was deferred.
C28_Witness ==
    /\ ReqNeedsSeveralItems
    /\ sum_story_points(items_with_status(sprint_items, "To Do")) < ReqDeficit
    /\ sum_story_points(items_with_status(sprint_items, "In Review")) < ReqDeficit
    /\ ret.value.action = "DEFER"

-----------------------------------------------------------------------------
(* Properties of the endpoint and of the prediction, checked under         *)
(* SpecEndpoint                                                            *)

IsEndpoint == ret.op = "assess_sprint_interruption_endpoint"

\* the value _calculate_ticket_value reads for a field of the dict it is given
EngineReads(ticket, field) ==
    Get(ticket, field, IF field = "risk_penalty" THEN 0 ELSE 50)

\* a dict handed to the engine has, field by field, the caller's value when
\* the caller gave one, and otherwise the priority's value for business_value
\* and urgency and 0 for risk_penalty
DefaultedPerField(supplied, handed) ==
    LET from_priority == endpoint_priority_map(Get(supplied, "priority", "Medium"))
    IN  /\ \A field \in {"business_value", "urgency"} :
               EngineReads(handed, field)
                   = IF field \in DOMAIN supplied THEN supplied[field] ELSE from_priority
        /\ EngineReads(handed, "risk_penalty")
               = IF "risk_penalty" \in DOMAIN supplied THEN supplied["risk_penalty"] ELSE 0

\* C16: the engine reads, for the new item and for every sprint item of a
\* request to the endpoint, each of business_value, urgency and risk_penalty
\* as the caller supplied it, or as the priority's value (0 for risk_penalty)
\* when the caller did not, each field on its own.
C16_DefaultsPerField ==
    IsEndpoint =>
        /\ DefaultedPerField(new_ticket, ret.args.new_ticket)
        /\ Len(ret.args.sprint_items) = Len(sprint_items)
        /\ \A i \in 1..Len(sprint_items) :
               DefaultedPerField(sprint_items[i], ret.args.sprint_items[i])

PredictionOf(ticket) == Get(ticket, "ml_analysis", EmptyDict)

WithImpact(ticket, days) == Put(ticket, "ml_analysis", [productivity_impact |-> days])

SameDecision(a, b) ==
    /\ a.action = b.action
    /\ a.target_to_remove = b.target_to_remove
    /\ a.new_item_value = b.new_item_value
    /\ a.removed_item_value = b.removed_item_value
    /\ a.switch_cost = b.switch_cost
    /\ a.value_net = b.value_net

\* C17: for a new item whose prediction is absent, empty or without a
\* productivity impact, the assessment (called directly or through the
\* endpoint) returns a decision, and it is the decision, target and numeric
\* fields returned for the same request with a productivity impact of 0.
C17_MissingPredictionIsZeroImpact ==
    (/\ IsAssessed \/ IsEndpoint
     /\ "productivity_impact" \notin DOMAIN PredictionOf(new_ticket))
        => /\ ret.value.action \in Actions
           /\ IsAssessed =>
                  SameDecision(ret.value,
                      assess_sprint_interruption(WithImpact(new_ticket, 0),
                                                 active_sprint, sprint_items))
           /\ IsEndpoint =>
                  SameDecision(ret.value,
                      assess_sprint_interruption_endpoint(
                          WithImpact(new_ticket, 0), active_sprint, sprint_items).result)

\* C17 witness: an assessment of a new item whose prediction has fields but no
\* productivity impact went through the value comparison, where one day of
\* impact would have changed the decision.
C17_Witness ==
    /\ IsAssessed
    /\ PredictionOf(new_ticket) # EmptyDict
    /\ "productivity_impact" \notin DOMAIN PredictionOf(new_ticket)
    /\ ret.value.switch_cost # NoneValue
    /\ assess_sprint_interruption(WithImpact(new_ticket, 1), active_sprint,
                                  sprint_items).action # ret.value.action
Priorities == {"Highest", "High", "Medium", "Low", "Lowest"}

\* 0.8 times the priority number
PriorityFloor(priority) ==
    CASE priority = "Highest" -> 72
      [] priority = "High" -> 56
      [] priority = "Medium" -> 40
      [] priority = "Low" -> 24
      [] priority = "Lowest" -> 8

\* 0.5 * business_value + 0.3 * effective_urgency - 0.2 * risk_penalty in the
\* doubles of the source, with the urgency raised to the priority's floor
WeightedValue(business_value, urgency, risk_penalty, priority) ==
    WeightedSum(business_value,
                IF urgency >= PriorityFloor(priority) THEN urgency
                ELSE PriorityFloor(priority),
                risk_penalty)

\* the weighted value of a ticket as the engine reads its fields
WeightedValueOf(ticket) ==
    WeightedValue(EngineReads(ticket, "business_value"), EngineReads(ticket, "urgency"),
                  EngineReads(ticket, "risk_penalty"), Get(ticket, "priority", "Medium"))

\* C24 as stated: the value of an item is the weighted sum itself, for every
\* business_value, urgency and risk_penalty in 0..100 under the new item's
\* priority.
C24_ValueIsWeightedSum ==
    (IsAssessed /\ sprint_items = << >>) => \A bv, urg, risk \in AttributeValues :
        LET pr == Get(new_ticket, "priority", "Medium")
        IN  calculate_ticket_value(
                [business_value |-> bv, urgency |-> urg, risk_penalty |-> risk,
                 priority |-> pr]) = WeightedValue(bv, urg, risk, pr)

\* C24 amended: the value of an item is the weighted sum 0.5 * business_value
\* + 0.3 * effective_urgency - 0.2 * risk_penalty, with effective_urgency the
\* larger of urgency and 0.8 times the priority number, and 0 when that sum
\* is negative; new_item_value and removed_item_value of a result are these
\* values of the new item and of the swap candidate.
C24_ValueIsFlooredWeightedSum ==
    IsAssessed =>
        /\ sprint_items = << >> => \A bv, urg, risk \in AttributeValues :
               LET pr == Get(new_ticket, "priority", "Medium")
               IN  calculate_ticket_value(
                       [business_value |-> bv, urgency |-> urg, risk_penalty |-> risk,
                        priority |-> pr]) = float_max(Zero, WeightedValue(bv, urg, risk, pr))
        /\ \A pr \in Priorities :
               calculate_ticket_value(Put(new_ticket, "priority", pr))
                   = float_max(Zero, WeightedValueOf(Put(new_ticket, "priority", pr)))
        /\ ret.value.new_item_value # NoneValue =>
               /\ ret.value.new_item_value[1] = float_max(Zero, WeightedValueOf(new_ticket))
               /\ ret.value.removed_item_value[1]
                      = float_max(Zero, WeightedValueOf(ReqCandidate.item))

\* C24 witness: the value comparison was made for a new item of priority
\* Highest with urgency 20, below the floor of 72, and for a candidate of
\* priority High whose urgency of 50 by default is below its floor of 56.
C24_Witness ==
    /\ IsAssessed
    /\ ret.value.new_item_value # NoneValue
    /\ Get(new_ticket, "priority", "Medium") = "Highest"
    /\ Get(new_ticket, "urgency", 50) = 20
    /\ ret.value.new_item_value[1]
           = WeightedSum(Get(new_ticket, "business_value", 50), 72,
                         Get(new_ticket, "risk_penalty", 0))
    /\ "urgency" \notin DOMAIN ReqCandidate.item
    /\ ret.value.removed_item_value[1]
           = WeightedSum(Get(ReqCandidate.item, "business_value", 50), 56, 0)

-----------------------------------------------------------------------------
(* Properties of the caller's fetch, evaluate and apply, checked under      *)
(* SpecCallers                                                              *)

HasEvaluated(c) == callers[c].pc \in {"evaluated", "applied"}

TargetOf(c) == callers[c].result.target_to_remove

\* the ids taken out of the sprint by the decisions applied so far
Removed == Range(board.removals)

\* under the locking discipline, an evaluation not yet applied names no item
\* that an applied decision has taken out, and no item is taken out twice
SerialisedNeverRemovesTwice ==
    board.serialised =>
        /\ \A c \in Callers :
               callers[c].pc = "evaluated" => TargetOf(c) \notin Removed
        /\ \A i, j \in 1..Len(board.removals) :
               i # j => board.removals[i] # board.removals[j]

\* C25 as stated: two evaluations for the same sprint that read the same
\* snapshot return the same target_to_remove; and when fetch, evaluate and
\* apply are serialised per sprint, a later evaluation never names an item
\* that an earlier applied decision removed.
C25_SameSnapshotSameTarget ==
    /\ \A a, b \in Callers :
           (HasEvaluated(a) /\ HasEvaluated(b)
            /\ callers[a].snapshot = callers[b].snapshot)
               => TargetOf(a) = TargetOf(b)
    /\ SerialisedNeverRemovesTwice

\* C25 amended: two evaluations for the same sprint that read the same snapshot
\* and both name a target name the same item, and two evaluations of equal
\* requirements on the same snapshot return the same result (one of two
\* different requirements may be accepted, deferred or split while the other
\* names a target); when fetch, evaluate and apply are serialised per sprint, a
\* later evaluation never names an item that an earlier applied decision
\* removed, and no item is removed twice.
C25_SameSnapshotSameVictim ==
    /\ \A a, b \in Callers :
           (HasEvaluated(a) /\ HasEvaluated(b)
            /\ callers[a].snapshot = callers[b].snapshot)
               => /\ (TargetOf(a) # NoneId /\ TargetOf(b) # NoneId)
                         => TargetOf(a) = TargetOf(b)
                  /\ (Put(callers[a].new_ticket, "id", NoneId)
                          = Put(callers[b].new_ticket, "id", NoneId))
                         => callers[a].result = callers[b].result
    /\ SerialisedNeverRemovesTwice

\* C25 witness: under the locking discipline a decision that removed an item
\* was applied, and the next evaluation, on the items as they are now, names
\* another item of the sprint.
C25_Witness ==
    /\ board # << >>
    /\ board.serialised
    /\ board.removals # << >>
    /\ \E c \in Callers :
           /\ callers[c].pc = "evaluated"
           /\ TargetOf(c) # NoneId
           /\ TargetOf(c) \notin Removed
           /\ \E i \in 1..Len(board.items) : board.items[i].id = TargetOf(c)

\* without the locking discipline two evaluations of the same snapshot named
\* the same item and both decisions were applied: the item is counted twice
SameVictimTwice ==
    /\ board # << >>
    /\ ~board.serialised
    /\ \E i, j \in 1..Len(board.removals) :
           i # j /\ board.removals[i] = board.removals[j]

-----------------------------------------------------------------------------
(* Properties of the backend's handlers, checked under SpecBackend          *)

AllCallsDone == \A c \in CallIds : calls[c].pc = "done"

\* every request in flight is an apply_recommendation
OnlyApplyCalls == \A c \in CallIds : calls[c].op = "apply_recommendation"

\* metrics.committedSP of a sprint document
CommittedSP(sprint) == Get(Get(sprint, "metrics", EmptyDict), "committedSP", 0)

\* the story points of the work items assigned to a sprint as of now
AssignedItems(sid) ==
    SelectSeq(db.work_items, LAMBDA item : Get(item, "sprint", NoneId) = sid)

AssignedSP(sid) == sum_item_points(AssignedItems(sid))

CommittedIsAssigned ==
    \A i \in DOMAIN db.sprints : CommittedSP(db.sprints[i]) = AssignedSP(db.sprints[i]._id)

\* C29: after any set of apply_recommendation calls on one sprint has
\* completed, calls interleaving at their database operations included, the
\* sprint's metrics.committedSP equals the sum of the story points of the work
\* items currently assigned to that sprint.
C29_CommittedMatchesAssigned ==
    (OnlyApplyCalls /\ AllCallsDone) => CommittedIsAssigned

\* the calls that got past the checks and found their sprint
Applied == {c \in CallIds : "success" \in DOMAIN calls[c].response}

\* with at most one call reaching the database operations the sum is right
OneCallKeepsCommitted ==
    (OnlyApplyCalls /\ AllCallsDone /\ Cardinality(Applied) <= 1) => CommittedIsAssigned

CompletionOps == {"complete_sprint_handler", "sprint_service.complete_sprint"}

\* call c takes the step
Steps(c) == calls'[c] # calls[c]

\* the sprint the completion found, which it has as of its first step, was
\* planned or completed
FoundNotActive(call) ==
    /\ call.sprint # EmptyDict
    /\ Get(call.sprint, "status", NoneId) \in {"planned", "completed"}

Failed(call) ==
    call.pc = "done" /\ ("status_code" \in DOMAIN call.response
                           \/ "exception" \in DOMAIN call.response)

Succeeded(call) == call.pc = "done" /\ ~Failed(call)

\* in the database the sprint is completed and every item assigned to it is Done
CompletedAndEmptied(database, sprint_id) ==
    /\ \A i \in DOMAIN database.sprints :
           database.sprints[i]._id = sprint_id => database.sprints[i].status = "completed"
    /\ \A i \in DOMAIN database.work_items :
           Get(database.work_items[i], "sprint", NoneId) = sprint_id
               => Get(database.work_items[i], "status", NoneId) = "Done"

\* a step of a completion that found its sprint planned or completed changes
\* nothing, and the completion ends in failure
NotActiveFailsAndChangesNothing(c) ==
    FoundNotActive(calls'[c]) =>
        /\ db' = db
        /\ calls'[c].pc = "done" => Failed(calls'[c])

\* C30: a sprint can be completed only while it is active: completing a
\* planned or completed sprint fails and changes no sprint document and no work
\* item; after a successful completion the sprint's status is completed and
\* none of its work items that are not Done is still assigned to it.
C30_OnlyActiveSprintCompleted ==
    [][\A c \in CallIds :
           (calls[c].op \in CompletionOps /\ Steps(c)) =>
               /\ NotActiveFailsAndChangesNothing(c)
               /\ Succeeded(calls'[c]) => CompletedAndEmptied(db', calls[c].sprint_id)]_vars

\* the service function keeps to the first half whatever runs beside it
ServiceCompletesOnlyActive ==
    [][\A c \in CallIds :
           (calls[c].op = "sprint_service.complete_sprint" /\ Steps(c)) =>
               NotActiveFailsAndChangesNothing(c)]_vars

\* the other request has not run: the call runs alone
RunsAlone(c) == \A other \in CallIds \ {c} : calls[other].pc = "called"

\* and to the second half when nothing runs beside it, as the handler does
CompletionAloneEmpties ==
    [][\A c \in CallIds :
           (calls[c].op \in CompletionOps /\ Steps(c) /\ RunsAlone(c)
              /\ Succeeded(calls'[c]))
               => CompletedAndEmptied(db', calls[c].sprint_id)]_vars

====
